---- MODULE Spec2Model ----
(***************************************************************************)
(* Model of diaryx-core's build_site (src/diaryx-core/src/lib.rs): the     *)
(* document loader, the relationship linker, the internal link rewriter,   *)
(* the attachment resolver and the assembly of BuildArtifacts; and of the   *)
(* command line's run_build (src/src/build/mod.rs) as far as its warning   *)
(* counter and its result depend on it.                                    *)
(*                                                                         *)
(* Strings are sequences of one-character strings, so that the string      *)
(* operations of the source (rsplit, ends_with, replace, lowercase, ...)   *)
(* are computed and not assumed.  Rendered HTML is a sequence of elements: *)
(* a quoted attribute (href / src) with its value, or a stretch of text.   *)
(* A raw link literal "[alias](target)" is a record of its alias and       *)
(* target; a literal that is not of that shape is a record of kind plain.  *)
(***************************************************************************)
EXTENDS Naturals, Integers, Sequences, FiniteSets, TLC

VARIABLES req, run, WARNING_COUNT

vars == <<req, run, WARNING_COUNT>>

\* ------------------------------------------------------------------ bounds

\* number of builds that can be in progress in one process
NBuilds == 2
\* longest contents list of a generated document
MaxContents == 2
\* most links in the body of a generated document
MaxLinks == 2
\* most images in the body of a generated document
MaxImages == 2

Builds == 1..NBuilds

\* ----------------------------------------------------------------- strings

None == <<>>
Some(x) == <<x>>

SeqToSet(s) == {s[i] : i \in DOMAIN s}

starts_with(s, p) == Len(s) >= Len(p) /\ SubSeq(s, 1, Len(p)) = p

ends_with(s, p) == Len(s) >= Len(p) /\ SubSeq(s, Len(s) - Len(p) + 1, Len(s)) = p

contains(s, p) == \E i \in 1..(Len(s) - Len(p) + 1) : SubSeq(s, i, i + Len(p) - 1) = p

\* index of the first character of s that is in cs, 0 when there is none
find_any(s, cs) ==
  IF \E i \in DOMAIN s : s[i] \in cs
    THEN CHOOSE i \in DOMAIN s : s[i] \in cs /\ \A j \in 1..(i - 1) : s[j] \notin cs
    ELSE 0

\* index of the last occurrence of character c in s, 0 when there is none
rfind(s, c) ==
  IF \E i \in DOMAIN s : s[i] = c
    THEN CHOOSE i \in DOMAIN s : s[i] = c /\ \A j \in (i + 1)..Len(s) : s[j] # c
    ELSE 0

\* str::rsplit(c).next(): the part after the last c, the whole string without c
rsplit_next(s, c) == SubSeq(s, rfind(s, c) + 1, Len(s))

\* str::rsplit_once(c)
rsplit_once(s, c) ==
  IF rfind(s, c) = 0 THEN None
  ELSE Some(<<SubSeq(s, 1, rfind(s, c) - 1), SubSeq(s, rfind(s, c) + 1, Len(s))>>)

\* str::split(|c| c in cs).next(): the part before the first such character
split_next(s, cs) == IF find_any(s, cs) = 0 THEN s ELSE SubSeq(s, 1, find_any(s, cs) - 1)

Upper == <<"A", "B", "C", "D", "E", "F", "G", "H", "I", "J", "K", "L", "M",
           "N", "O", "P", "Q", "R", "S", "T", "U", "V", "W", "X", "Y", "Z">>
Lower == <<"a", "b", "c", "d", "e", "f", "g", "h", "i", "j", "k", "l", "m",
           "n", "o", "p", "q", "r", "s", "t", "u", "v", "w", "x", "y", "z">>
Digit == <<"0", "1", "2", "3", "4", "5", "6", "7", "8", "9">>

lower_char(c) ==
  IF \E i \in DOMAIN Upper : Upper[i] = c
    THEN Lower[CHOOSE i \in DOMAIN Upper : Upper[i] = c]
    ELSE c

to_ascii_lowercase(s) == [i \in DOMAIN s |-> lower_char(s[i])]

RECURSIVE trim_end_matches(_, _)
trim_end_matches(s, c) ==
  IF s # <<>> /\ s[Len(s)] = c THEN trim_end_matches(SubSeq(s, 1, Len(s) - 1), c) ELSE s

RECURSIVE trim_start_matches(_, _)
trim_start_matches(s, c) ==
  IF s # <<>> /\ s[1] = c THEN trim_start_matches(Tail(s), c) ELSE s

Pct20 == <<"%", "2", "0">>

\* str::replace("%20", " ")
RECURSIVE decode_pct20(_)
decode_pct20(s) ==
  IF s = <<>> THEN <<>>
  ELSE IF starts_with(s, Pct20) THEN <<" ">> \o decode_pct20(SubSeq(s, 4, Len(s)))
  ELSE <<s[1]>> \o decode_pct20(Tail(s))

\* str::replace(' ', "%20")
RECURSIVE encode_space(_)
encode_space(s) ==
  IF s = <<>> THEN <<>>
  ELSE IF s[1] = " " THEN Pct20 \o encode_space(Tail(s))
  ELSE <<s[1]>> \o encode_space(Tail(s))

DotMd == <<".", "m", "d">>
DotHtml == <<".", "h", "t", "m", "l">>
IndexHtml == <<"i", "n", "d", "e", "x">> \o DotHtml
Slash == <<"/">>

\* the elements of s that satisfy Keep, in order
RECURSIVE SelectIdx(_, _)
SelectIdx(s, keep) ==
  IF s = <<>> THEN <<>>
  ELSE IF keep[1] THEN <<s[1]>> \o SelectIdx(Tail(s), Tail(keep))
  ELSE SelectIdx(Tail(s), Tail(keep))

\* ------------------------------------------------------------ FileProvider
\* The provider is a map from path strings to entries (tests::TestFs); a real
\* adapter additionally has directories and unreadable files, which the entry
\* fields is_file and readable stand for.

fs_exists(fs, path) == path \in DOMAIN fs

fs_is_file(fs, path) == fs_exists(fs, path) /\ fs[path].is_file

fs_join(parent, rel) ==
  IF parent = <<>> THEN rel
  ELSE trim_end_matches(parent, "/") \o Slash \o trim_start_matches(rel, "/")

fs_file_name(path) == rsplit_next(path, "/")

fs_extension_lowercase(path) ==
  IF rsplit_once(fs_file_name(path), ".") = None THEN None
  ELSE Some(to_ascii_lowercase(rsplit_once(fs_file_name(path), ".")[1][2]))

fs_parent(path) ==
  IF rsplit_once(path, "/") = None THEN <<>> ELSE rsplit_once(path, "/")[1][1]

\* ----------------------------------------------------------------- slugify

IsAlnumLower(c) == c \in SeqToSet(Lower) \cup SeqToSet(Digit)

\* Regex [^a-z0-9]+ replaced by "-": every maximal run becomes one hyphen
RECURSIVE replace_non_alnum(_)
replace_non_alnum(s) ==
  IF s = <<>> THEN <<>>
  ELSE IF IsAlnumLower(s[1]) THEN <<s[1]>> \o replace_non_alnum(Tail(s))
  ELSE IF Len(s) > 1 /\ ~IsAlnumLower(s[2]) THEN replace_non_alnum(Tail(s))
  ELSE <<"-">> \o replace_non_alnum(Tail(s))

slugify_untrimmed(s) == replace_non_alnum(to_ascii_lowercase(s))

slugify(s) ==
  trim_start_matches(trim_end_matches(replace_non_alnum(to_ascii_lowercase(s)), "-"), "-")

\* ------------------------------------------------- frontmatter and parsing
\* A file's text is a sequence of lines.  A line is the marker "---", a line
\* of the YAML header (key and value, or a line that is not YAML), or a line
\* of Markdown (a link, an image, or plain text).  The ty of a header line is
\* the YAML type of its value against the type FrontmatterRaw declares for
\* the key: "plain" (a string, or the declared type), "seq" (a sequence where
\* any value is accepted), "null", or "mistyped" (a value serde rejects for
\* the key, such as a number where a string is declared).

Marker == [t |-> "marker"]
YamlLine(k, v) == [t |-> "yaml", k |-> k, v |-> v, ty |-> "plain"]
NullLine(k) == [t |-> "yaml", k |-> k, v |-> <<>>, ty |-> "null"]
SeqLine(k, v) == [t |-> "yaml", k |-> k, v |-> v, ty |-> "seq"]
MistypedLine(k) == [t |-> "yaml", k |-> k, v |-> <<>>, ty |-> "mistyped"]
BadYamlLine == [t |-> "badyaml"]
MdLink(url) == [t |-> "md", kind |-> "link", url |-> url]
MdImage(url) == [t |-> "md", kind |-> "image", url |-> url]
MdText == [t |-> "md", kind |-> "text", url |-> <<>>]

RECURSIVE index_of_marker(_, _)
index_of_marker(lines, from) ==
  IF from > Len(lines) THEN 0
  ELSE IF lines[from] = Marker THEN from
  ELSE index_of_marker(lines, from + 1)

split_frontmatter_lenient(raw) ==
  IF raw = <<>> \/ raw[1] # Marker \/ index_of_marker(raw, 2) = 0
    THEN [err |-> FALSE, has_yaml |-> FALSE, frontmatter_yaml |-> <<>>, body_md |-> raw]
  ELSE [err |-> FALSE, has_yaml |-> TRUE,
        frontmatter_yaml |-> SubSeq(raw, 2, index_of_marker(raw, 2) - 1),
        body_md |-> SubSeq(raw, index_of_marker(raw, 2) + 1, Len(raw))]

split_frontmatter_last_marker(raw) ==
  IF raw = <<>> \/ raw[1] # Marker
    THEN [err |-> FALSE, has_yaml |-> FALSE, frontmatter_yaml |-> <<>>, body_md |-> raw]
  ELSE IF index_of_marker(raw, 2) = 0
    THEN [err |-> TRUE, has_yaml |-> FALSE, frontmatter_yaml |-> <<>>, body_md |-> <<>>]
  ELSE LET last == CHOOSE j \in 2..Len(raw) :
                     raw[j] = Marker /\ \A i \in (j + 1)..Len(raw) : raw[i] # Marker
       IN [err |-> FALSE, has_yaml |-> TRUE,
           frontmatter_yaml |-> SubSeq(raw, 2, last - 1),
           body_md |-> SubSeq(raw, last + 1, Len(raw))]

\* [err, has_yaml, frontmatter_yaml, body_md]
split_frontmatter(raw) ==
  IF raw = <<>> \/ raw[1] # Marker
    THEN [err |-> FALSE, has_yaml |-> FALSE, frontmatter_yaml |-> <<>>, body_md |-> raw]
  ELSE IF index_of_marker(raw, 2) = 0
    THEN [err |-> TRUE, has_yaml |-> FALSE, frontmatter_yaml |-> <<>>, body_md |-> <<>>]
  ELSE [err |-> FALSE, has_yaml |-> TRUE,
        frontmatter_yaml |-> SubSeq(raw, 2, index_of_marker(raw, 2) - 1),
        body_md |-> SubSeq(raw, index_of_marker(raw, 2) + 1, Len(raw))]

\* FrontmatterRaw: the fields that are Some, with the line that gave the
\* value; an Option field is None when its key is absent or its value null
fm_of(yaml) ==
  [k \in {yaml[i].k : i \in {j \in DOMAIN yaml : yaml[j].ty # "null"}} |->
     yaml[CHOOSE i \in DOMAIN yaml : yaml[i].k = k]]

\* FrontmatterRaw::default(): every field None
default_fm == [k \in {} |-> NullLine(k)]

\* serde_yaml::from_value(value).unwrap_or_default(): one value of a type the
\* struct does not accept fails the conversion, and all fields are None
from_value_or_default(yaml) ==
  IF \E i \in DOMAIN yaml : yaml[i].ty = "mistyped" THEN default_fm ELSE fm_of(yaml)

\* [err, fm, value]: value is the YAML value, a mapping in the order of the
\* header's lines (the empty mapping for a header with no lines)
parse_frontmatter(split) ==
  IF ~split.has_yaml \/ split.frontmatter_yaml = <<>>
    THEN [err |-> FALSE, fm |-> default_fm, value |-> <<>>]
  ELSE IF \E i \in DOMAIN split.frontmatter_yaml : split.frontmatter_yaml[i].t # "yaml"
    THEN [err |-> TRUE, fm |-> default_fm, value |-> <<>>]
  ELSE [err |-> FALSE, fm |-> from_value_or_default(split.frontmatter_yaml),
        value |-> split.frontmatter_yaml]

fm_has(fm, k) == k \in DOMAIN fm

RequiredFields == <<"title", "author", "created", "updated", "visibility", "format", "reachable">>

Warn(kind, path) == [w |-> kind, p |-> path]

Space == " "

\* str::trim
trim(s) == trim_end_matches(trim_start_matches(s, Space), Space)

\* the match on fm.reachable: None, a blank string and an empty sequence are
\* missing
reachable_missing(fm) ==
  \/ ~fm_has(fm, "reachable")
  \/ fm["reachable"].ty = "plain" /\ trim(fm["reachable"].v) = <<>>
  \/ fm["reachable"].ty = "seq" /\ fm["reachable"].v = <<>>

field_missing(fm, k) == IF k = "reachable" THEN reachable_missing(fm) ELSE ~fm_has(fm, k)

check_required(fm, path) ==
  SelectIdx([i \in DOMAIN RequiredFields |-> Warn(RequiredFields[i], path)],
            [i \in DOMAIN RequiredFields |-> field_missing(fm, RequiredFields[i])])

parse_part_of(fm) == IF fm_has(fm, "part_of") THEN fm["part_of"].v ELSE <<>>

\* a sequence of labels: each is trimmed, and the empty ones are dropped
normalize_string_or_list(fm) ==
  IF fm_has(fm, "visibility")
    THEN SelectSeq([i \in DOMAIN fm["visibility"].v |-> trim(fm["visibility"].v[i])],
                   LAMBDA l : l # <<>>)
    ELSE <<>>

normalize_contents(fm) == IF fm_has(fm, "contents") THEN fm["contents"].v ELSE <<>>

\* markdown::to_html_with_options with default options: no input is an error
render_markdown(body) ==
  [i \in DOMAIN body |->
     IF body[i].t = "md" /\ body[i].kind = "link" THEN [kind |-> "href", val |-> body[i].url]
     ELSE IF body[i].t = "md" /\ body[i].kind = "image" THEN [kind |-> "src", val |-> body[i].url]
     ELSE [kind |-> "text", val |-> <<>>]]

\* ---------------------------------------------------------- raw link literals

Link(alias, target) == [kind |-> "link", alias |-> alias, target |-> target]
Plain == [kind |-> "plain", alias |-> <<>>, target |-> <<>>]

resolve_contents_link(raw, parent_dir, fs) ==
  IF raw.kind # "link" THEN None
  ELSE IF fs_exists(fs, fs_join(parent_dir, raw.target)) THEN Some(fs_join(parent_dir, raw.target))
  ELSE IF fs_extension_lowercase(raw.target) = None /\ ~ends_with(raw.target, Slash)
          /\ fs_exists(fs, fs_join(parent_dir, raw.target \o DotMd))
    THEN Some(fs_join(parent_dir, raw.target \o DotMd))
  ELSE Some(fs_join(parent_dir, raw.target))

extract_md_link_parts_raw(raw) ==
  IF raw.kind # "link" THEN None ELSE Some(<<raw.alias, raw.target>>)

\* --------------------------------------------------------------- the loader

EmptyMap == [x \in {} |-> <<>>]

entry_metadata_had_root(entry, visited) ==
  IF entry \in DOMAIN visited THEN visited[entry].is_root_index ELSE FALSE

\* the slug of a path: slugify of the file name's stem
slug_of_path(path) ==
  IF rsplit_once(fs_file_name(path), ".") = None THEN slugify(fs_file_name(path))
  ELSE slugify(rsplit_once(fs_file_name(path), ".")[1][1])

NewDoc(path, fm, value, body) ==
  [id |-> slug_of_path(path),
   abs_path |-> path,
   title |-> IF fm_has(fm, "title") THEN fm["title"].v ELSE fs_file_name(path),
   frontmatter |-> value,
   visibility |-> normalize_string_or_list(fm),
   is_root_index |-> IF fm_has(fm, "this_file_is_root_index")
                       THEN fm["this_file_is_root_index"].v ELSE FALSE,
   is_index |-> normalize_contents(fm) # <<>>,
   contents_raw |-> normalize_contents(fm),
   raw_part_of |-> parse_part_of(fm),
   children |-> <<>>,
   parents |-> <<>>,
   child_aliases |-> EmptyMap,
   parent_aliases |-> EmptyMap,
   html |-> render_markdown(body),
   warnings |-> check_required(fm, path)]

gate_open_root_only(doc, entry, visited) == doc.is_index /\ doc.is_root_index

gate_open_any_index(doc, entry, visited) == doc.is_index

\* the recursion gate of collect_documents
gate_open(doc, entry, visited) ==
  doc.is_index /\ (doc.is_root_index \/ entry_metadata_had_root(entry, visited))

\* the paths a loaded document's content list adds to the queue, in order
RECURSIVE enqueue_contents(_, _, _)
enqueue_contents(links, parent_dir, fs) ==
  IF links = <<>> THEN <<>>
  ELSE LET r == resolve_contents_link(links[1], parent_dir, fs)
       IN (IF r # None /\ fs_exists(fs, r[1]) /\ fs_is_file(fs, r[1]) THEN <<r[1]>> ELSE <<>>)
          \o enqueue_contents(Tail(links), parent_dir, fs)

\* the warnings a loaded document's content list adds, in order
RECURSIVE contents_warnings(_, _, _, _)
contents_warnings(links, parent_dir, fs, path) ==
  IF links = <<>> THEN <<>>
  ELSE LET r == resolve_contents_link(links[1], parent_dir, fs)
       IN (IF r = None THEN <<Warn("contents-unparsed", path)>>
           ELSE IF fs_exists(fs, r[1]) /\ fs_is_file(fs, r[1]) THEN <<>>
           ELSE <<Warn("contents-target", r[1])>>)
          \o contents_warnings(Tail(links), parent_dir, fs, path)

\* the result of a build that ended with an error: no artifacts
Failed(st, why) == [st EXCEPT !.pc = "failed", !.err = why, !.queue = <<>>]

never_visited(path, visited) == FALSE

\* a path the queue yields again after it was loaded is skipped
already_visited(path, visited) == path \in DOMAIN visited

push_front_all(queue, items) == items \o queue

\* VecDeque::push_back of the resolved content-list entries
push_back_all(queue, items) == queue \o items

on_read_error_fatal(rest, path) == Failed(rest, "read")

\* read_to_string failed: a warning, and the path is skipped
on_read_error(rest, path) ==
  [rest EXCEPT !.warnings_global = Append(@, Warn("read", path))]

\* one iteration of the while loop of collect_documents; read and expanded
\* are history: the paths whose text was read, and the paths whose content
\* list passed the recursion gate
collect_iteration(rq, st) ==
  LET path == Head(st.queue)
      rest == [st EXCEPT !.queue = Tail(st.queue)]
      fs == rq.fs
  IN
  IF already_visited(path, st.visited) THEN rest
  ELSE IF ~fs_exists(fs, path)
    THEN [rest EXCEPT !.warnings_global = Append(@, Warn("missing", path))]
  ELSE IF ~fs_is_file(fs, path)
    THEN [rest EXCEPT !.warnings_global = Append(@, Warn("non-file", path))]
  ELSE IF fs_extension_lowercase(path) # Some(<<"m", "d">>)
    THEN rest
  ELSE IF ~fs[path].readable
    THEN on_read_error(rest, path)
  ELSE
    LET split == split_frontmatter(fs[path].text)
        pf == parse_frontmatter(split)
        seen == [rest EXCEPT !.read = @ \cup {path}]
    IN
    IF split.err THEN Failed(seen, "unterminated")
    ELSE IF pf.err THEN Failed(seen, "yaml")
    ELSE
      LET doc == NewDoc(path, pf.fm, pf.value, split.body_md)
          visited2 == (path :> doc) @@ st.visited
          open == gate_open(doc, rq.entry, visited2)
      IN [seen EXCEPT
            !.order = Append(@, path),
            !.visited = visited2,
            !.expanded = IF open THEN @ \cup {path} ELSE @,
            !.queue = IF open
                        THEN push_back_all(@, enqueue_contents(doc.contents_raw,
                                                               fs_parent(path), fs))
                        ELSE @,
            !.warnings_global = IF open
                        THEN @ \o contents_warnings(doc.contents_raw, fs_parent(path), fs, path)
                        ELSE @]

\* the end of collect_documents: the loaded documents in traversal order
collect_out(st) ==
  [st EXCEPT !.docs = [i \in DOMAIN st.order |-> st.visited[st.order[i]]], !.pc = "link"]

\* -------------------------------------------------------------- link_graph

\* Iterator::position: the first index whose document has this path, 0 if none
position(docs, abs) ==
  IF \E j \in DOMAIN docs : docs[j].abs_path = abs
    THEN CHOOSE j \in DOMAIN docs :
           docs[j].abs_path = abs /\ \A k \in 1..(j - 1) : docs[k].abs_path # abs
    ELSE 0

push_always(list, x) == Append(list, x)

\* Vec::contains, then Vec::push
push_unique(list, x) == IF x \in SeqToSet(list) THEN list ELSE Append(list, x)

\* one content-list entry of docs[i]: the bidirectional, deduplicated edge
link_entry(docs, i, raw, fs) ==
  LET r == resolve_contents_link(raw, fs_parent(docs[i].abs_path), fs)
      c == IF r = None THEN 0 ELSE position(docs, r[1])
  IN IF c = 0 THEN docs
     ELSE LET d1 == [docs EXCEPT ![i].children = push_unique(@, docs[c].id)]
          IN [d1 EXCEPT ![c].parents = push_unique(@, d1[i].id)]

RECURSIVE link_entries(_, _, _, _)
link_entries(docs, i, entries, fs) ==
  IF entries = <<>> THEN docs
  ELSE link_entries(link_entry(docs, i, entries[1], fs), i, Tail(entries), fs)

RECURSIVE link_structure(_, _, _)
link_structure(docs, i, fs) ==
  IF i > Len(docs) THEN docs
  ELSE IF ~docs[i].is_index THEN link_structure(docs, i + 1, fs)
  ELSE link_structure(link_entries(docs, i, docs[i].contents_raw, fs), i + 1, fs)

\* HashMap::insert
map_insert(m, k, v) == [x \in DOMAIN m \cup {k} |-> IF x = k THEN v ELSE m[x]]

RECURSIVE alias_map_structural(_, _, _, _, _)
alias_map_structural(docs, i, list, m, fs) ==
  IF list = <<>> THEN m
  ELSE LET parts == extract_md_link_parts_raw(list[1])
           r == resolve_contents_link(list[1], fs_parent(docs[i].abs_path), fs)
           idx == IF r = None THEN 0 ELSE position(docs, r[1])
       IN IF parts = None \/ parts[1][1] = <<>> \/ idx = 0
            THEN alias_map_structural(docs, i, Tail(list), m, fs)
          ELSE IF docs[idx].id \notin SeqToSet(docs[i].children) \cup SeqToSet(docs[i].parents)
            THEN alias_map_structural(docs, i, Tail(list), m, fs)
          ELSE alias_map_structural(docs, i, Tail(list),
                                    map_insert(m, docs[idx].id, parts[1][1]), fs)

\* the alias map of document i after the raw literals in list, in order
RECURSIVE alias_map(_, _, _, _, _)
alias_map(docs, i, list, m, fs) ==
  IF list = <<>> THEN m
  ELSE LET parts == extract_md_link_parts_raw(list[1])
           r == resolve_contents_link(list[1], fs_parent(docs[i].abs_path), fs)
           idx == IF r = None THEN 0 ELSE position(docs, r[1])
       IN IF parts = None \/ parts[1][1] = <<>> \/ idx = 0
            THEN alias_map(docs, i, Tail(list), m, fs)
            ELSE alias_map(docs, i, Tail(list), map_insert(m, docs[idx].id, parts[1][1]), fs)

link_aliases(docs, fs) ==
  [i \in DOMAIN docs |->
     [docs[i] EXCEPT
        !.child_aliases = IF docs[i].is_index
                            THEN alias_map(docs, i, docs[i].contents_raw, @, fs) ELSE @,
        !.parent_aliases = alias_map(docs, i, docs[i].raw_part_of, @, fs)]]

link_graph(docs, fs) == link_aliases(link_structure(docs, 1, fs), fs)

\* ------------------------------------------------ build_site: the filter

PublicLabel == <<"p", "u", "b", "l", "i", "c">>

is_public(d) == PublicLabel \in SeqToSet(d.visibility)

retain_public_only(docs, rq) ==
  SelectIdx(docs, [i \in DOMAIN docs |-> is_public(docs[i])])

\* Vec::retain
retain(docs, rq) ==
  SelectIdx(docs, [i \in DOMAIN docs |-> is_public(docs[i]) \/ docs[i].abs_path = rq.entry])

filter_docs(rq, st) ==
  IF position(st.docs, rq.entry) = 0 THEN Failed(st, "entry-not-loaded")
  ELSE LET kept == IF rq.opts.include_nonpublic THEN st.docs ELSE retain(st.docs, rq)
       IN IF kept = <<>> THEN Failed(st, "no-documents")
          ELSE [st EXCEPT !.docs = kept, !.pc = "rewrite"]

\* --------------------------------------------------- rewrite_internal_links

is_multi_page(docs) == (\E i \in DOMAIN docs : docs[i].is_root_index) /\ Len(docs) > 1

\* HashMap::from_iter over (file name, (slug, is root)): the last document
\* with a file name wins
basename_map(docs) ==
  [n \in {rsplit_next(docs[i].abs_path, "/") : i \in DOMAIN docs} |->
     LET last == CHOOSE i \in DOMAIN docs :
                   /\ rsplit_next(docs[i].abs_path, "/") = n
                   /\ \A j \in (i + 1)..Len(docs) : rsplit_next(docs[j].abs_path, "/") # n
     IN [slug |-> docs[last].id, is_root |-> docs[last].is_root_index]]

RECURSIVE docs_of_builds(_)
docs_of_builds(b) == IF b = 0 THEN <<>> ELSE docs_of_builds(b - 1) \o run[b].docs

\* a registry of file names that every build of the process writes to
by_basename_shared(docs) == basename_map(docs_of_builds(NBuilds) \o docs)

\* by_basename: a local of rewrite_internal_links, built from its argument
by_basename(docs) == basename_map(docs)

\* Regex href="([^"]+?\.(?i:md)(?:[?#][^"]*)?)" on the value of one attribute
href_md_match(url) ==
  \E i \in 2..(Len(url) - 2) :
     /\ to_ascii_lowercase(SubSeq(url, i, i + 2)) = DotMd
     /\ (i + 2 = Len(url) \/ url[i + 3] \in {"?", "#"})

md_name(stem) == stem \o DotMd

\* the file a rewritten href names: "index.html" and format!("{}.html", slug)
html_name(stem) == stem \o DotHtml

Index == <<"i", "n", "d", "e", "x">>

new_href_one_level(multi_page, flat, current_is_root, target) ==
  IF multi_page /\ ~target.is_root THEN html_name(target.slug) ELSE html_name(Index)

\* the href a resolved link is rewritten to
new_href(multi_page, flat, current_is_root, target) ==
  IF multi_page /\ ~flat
    THEN IF current_is_root
           THEN IF target.is_root THEN html_name(Index)
                ELSE <<"p", "a", "g", "e", "s", "/">> \o html_name(target.slug)
           ELSE IF target.is_root THEN <<".", ".", "/">> \o html_name(Index)
                ELSE html_name(target.slug)
  ELSE IF multi_page
    THEN IF target.is_root THEN html_name(Index) ELSE html_name(target.slug)
  ELSE html_name(Index)

url_suffix_dropped(url) == <<>>

url_suffix(url) ==
  IF find_any(url, {"?", "#"}) = 0 THEN <<>>
  ELSE SubSeq(url, find_any(url, {"?", "#"}), Len(url))

url_basename_norm(url) == decode_pct20(rsplit_next(split_next(url, {"?", "#"}), "/"))

rewrite_element(e, map, multi_page, flat, current_is_root) ==
  IF e.kind = "href" /\ href_md_match(e.val) /\ url_basename_norm(e.val) \in DOMAIN map
    THEN [e EXCEPT !.val = new_href(multi_page, flat, current_is_root,
                                    map[url_basename_norm(e.val)]) \o url_suffix(e.val)]
    ELSE e

html_mentions_md(html) ==
  \E i \in DOMAIN html : contains(to_ascii_lowercase(html[i].val), DotMd)

rewrite_internal_links(docs, opts) ==
  [i \in DOMAIN docs |->
     IF ~html_mentions_md(docs[i].html) THEN docs[i]
     ELSE [docs[i] EXCEPT !.html =
             [k \in DOMAIN @ |->
                rewrite_element(@[k], by_basename(docs), is_multi_page(docs), opts.flat,
                                docs[i].is_root_index)]]]

rewrite_docs(rq, st) ==
  [st EXCEPT !.docs = IF rq.opts.rewrite_links THEN rewrite_internal_links(@, rq.opts) ELSE @,
             !.pc = "attach"]

\* ------------------------------------------- build_site: the attachments
\* The attachment pass works on std::path and the real disk, not on the
\* FileProvider: Path::join does not normalise, Path::exists resolves "." and
\* "..".  disk.files and disk.dirs hold normalised paths.

path_join(parent, rel) ==
  IF parent = <<>> THEN rel
  ELSE IF parent[Len(parent)] = "/" THEN parent \o rel
  ELSE parent \o Slash \o rel

\* the components of a path between its separators
RECURSIVE components(_)
components(s) ==
  IF find_any(s, {"/"}) = 0 THEN <<s>>
  ELSE <<SubSeq(s, 1, find_any(s, {"/"}) - 1)>> \o components(SubSeq(s, find_any(s, {"/"}) + 1, Len(s)))

RECURSIVE resolve_components(_, _)
resolve_components(cs, stack) ==
  IF cs = <<>> THEN stack
  ELSE IF cs[1] = <<>> \/ cs[1] = <<".">> THEN resolve_components(Tail(cs), stack)
  ELSE IF cs[1] = <<".", ".">> /\ stack # <<>> /\ stack[Len(stack)] # <<".", ".">>
    THEN resolve_components(Tail(cs), SubSeq(stack, 1, Len(stack) - 1))
  ELSE resolve_components(Tail(cs), Append(stack, cs[1]))

RECURSIVE join_components(_)
join_components(cs) ==
  IF cs = <<>> THEN <<>>
  ELSE IF Len(cs) = 1 THEN cs[1]
  ELSE cs[1] \o Slash \o join_components(Tail(cs))

\* the file a path string names on disk
physical(path) == join_components(resolve_components(components(path), <<>>))

disk_exists(disk, path) == physical(path) \in disk.files \cup disk.dirs

disk_is_dir(disk, path) == physical(path) \in disk.dirs

RECURSIVE decimal(_)
decimal(n) == IF n < 10 THEN <<Digit[n + 1]>> ELSE decimal(n \div 10) \o <<Digit[(n % 10) + 1]>>

RECURSIVE first_free(_, _, _, _)
first_free(stem, ext, used, counter) ==
  IF (stem \o <<"-">> \o decimal(counter) \o ext) \notin used
    THEN stem \o <<"-">> \o decimal(counter) \o ext
    ELSE first_free(stem, ext, used, counter + 1)

assign_name_keep_base(base_name, used) == base_name

\* the name under assets/ of a source seen for the first time
assign_name(base_name, used) ==
  IF base_name \notin used THEN base_name
  ELSE IF rsplit_once(base_name, ".") = None THEN first_free(base_name, <<>>, used, 1)
  ELSE first_free(rsplit_once(base_name, ".")[1][1],
                  <<".">> \o rsplit_once(base_name, ".")[1][2], used, 1)

Assets == <<"a", "s", "s", "e", "t", "s", "/">>

not_attachment(val) ==
  \/ val = <<>>
  \/ starts_with(val, <<"#">>)
  \/ starts_with(val, <<"/">>)
  \/ starts_with(val, <<"d", "a", "t", "a", ":">>)
  \/ starts_with(val, <<"m", "a", "i", "l", "t", "o", ":">>)
  \/ contains(val, <<":", "/", "/">>)

\* the source path string under which an attribute value is looked up
attachment_source(doc, val) ==
  path_join(fs_parent(doc.abs_path), decode_pct20(split_next(val, {"?", "#"})))

\* acc: [s2t, used, docs]; one captured attribute of docs[i].html[k]
attach_element(acc, i, k, multi_page, opts, disk) ==
  LET doc == acc.docs[i]
      e == doc.html[k]
      src == attachment_source(doc, e.val)
  IN
  IF e.kind \notin {"href", "src"} \/ not_attachment(e.val) THEN acc
  ELSE IF ends_with(to_ascii_lowercase(split_next(e.val, {"?", "#"})), DotMd) THEN acc
  ELSE IF ~disk_exists(disk, src)
    THEN [acc EXCEPT !.docs[i].warnings = Append(@, Warn("attachment-not-found", src))]
  ELSE IF disk_is_dir(disk, src)
    THEN [acc EXCEPT !.docs[i].warnings = Append(@, Warn("attachment-is-dir", src))]
  ELSE
    LET known == src \in DOMAIN acc.s2t
        name == assign_name(fs_file_name(src), acc.used)
        target_rel == IF known THEN acc.s2t[src] ELSE Assets \o name
        final_path == IF multi_page /\ ~opts.flat /\ ~doc.is_root_index
                        THEN <<".", ".", "/">> \o target_rel ELSE target_rel
    IN [acc EXCEPT
          !.s2t = IF known THEN @ ELSE map_insert(@, src, target_rel),
          !.used = IF known THEN @ ELSE @ \cup {fs_file_name(src), name},
          !.docs[i].html[k].val = encode_space(final_path)]

RECURSIVE attach_from(_, _, _, _, _, _)
attach_from(acc, i, k, multi_page, opts, disk) ==
  IF i > Len(acc.docs) THEN acc
  ELSE IF k > Len(acc.docs[i].html) THEN attach_from(acc, i + 1, 1, multi_page, opts, disk)
  ELSE attach_from(attach_element(acc, i, k, multi_page, opts, disk), i, k + 1,
                   multi_page, opts, disk)

\* the characters of the model in byte order, for the comparison of strings
Ascii == <<" ", "#", "%", "-", ".", "/">> \o Digit \o <<":", "?">> \o Upper \o <<"_">> \o Lower

rank(c) == CHOOSE i \in DOMAIN Ascii : Ascii[i] = c

RECURSIVE str_less(_, _)
str_less(a, b) ==
  IF b = <<>> THEN FALSE
  ELSE IF a = <<>> THEN TRUE
  ELSE IF a[1] # b[1] THEN rank(a[1]) < rank(b[1])
  ELSE str_less(Tail(a), Tail(b))

\* the copy plan: the entries of source_to_target sorted by target
RECURSIVE sort_by_target(_)
sort_by_target(entries) ==
  IF entries = {} THEN <<>>
  ELSE LET m == CHOOSE x \in entries : \A y \in entries : ~str_less(y.target, x.target)
       IN <<m>> \o sort_by_target(entries \ {m})

copy_plan(s2t) == sort_by_target({[source |-> x, target |-> s2t[x]] : x \in DOMAIN s2t})

attach_docs(rq, st) ==
  LET acc == attach_from([s2t |-> EmptyMap, used |-> {}, docs |-> st.docs], 1, 1,
                         is_multi_page(st.docs), rq.opts, rq.disk)
  IN [st EXCEPT !.docs = acc.docs, !.plan = copy_plan(acc.s2t), !.pc = "emit"]

\* ------------------------------------------------ build_site: the artifacts

root_slug(docs) ==
  IF \E i \in DOMAIN docs : docs[i].is_root_index
    THEN Some(docs[CHOOSE i \in DOMAIN docs :
                     docs[i].is_root_index /\ \A j \in 1..(i - 1) : ~docs[j].is_root_index].id)
    ELSE None

file_name_by_id(d, multi_page) == d.id \o DotHtml

file_name(d, multi_page) ==
  IF multi_page THEN (IF d.is_root_index THEN IndexHtml ELSE d.id \o DotHtml) ELSE IndexHtml

RECURSIVE flatten(_)
flatten(ss) == IF ss = <<>> THEN <<>> ELSE ss[1] \o flatten(Tail(ss))


\* --------------------------------------------------- build_metadata_html

\* a link of the fragment: <a href="{href}">{label}</a>
Anchor(href, label) == [href |-> href, label |-> label]

escape_char(c) ==
  IF c = "&" THEN <<"&", "a", "m", "p", ";">>
  ELSE IF c = "<" THEN <<"&", "l", "t", ";">>
  ELSE IF c = ">" THEN <<"&", "g", "t", ";">>
  ELSE IF c = "\"" THEN <<"&", "q", "u", "o", "t", ";">>
  ELSE IF c = "'" THEN <<"&", "#", "3", "9", ";">>
  ELSE <<c>>

html_escape_text(s) == flatten([i \in DOMAIN s |-> escape_char(s[i])])

normalize_target_basename_raw(t) ==
  IF ends_with(to_ascii_lowercase(rsplit_next(t, "/")), DotMd)
    THEN rsplit_next(t, "/")
    ELSE rsplit_next(t, "/") \o DotMd

\* the map from normalized target basename to alias of a list of raw literals
RECURSIVE raw_alias_map(_, _)
raw_alias_map(list, m) ==
  IF list = <<>> THEN m
  ELSE LET parts == extract_md_link_parts_raw(list[1])
       IN IF parts = None \/ parts[1][1] = <<>>
            THEN raw_alias_map(Tail(list), m)
            ELSE raw_alias_map(Tail(list),
                               map_insert(m, normalize_target_basename_raw(parts[1][2]),
                                          parts[1][1]))

\* Mapping::get: the line of the key, None when the key is absent
mapping_get(value, k) ==
  IF \E i \in DOMAIN value : value[i].k = k
    THEN Some(value[CHOOSE i \in DOMAIN value : value[i].k = k])
    ELSE None

\* the aliases recovered from the raw sequence under the contents key
contents_alias_map(value, is_index) ==
  IF is_index /\ mapping_get(value, "contents") # None
              /\ mapping_get(value, "contents")[1].ty = "plain"
    THEN raw_alias_map(mapping_get(value, "contents")[1].v, EmptyMap)
    ELSE EmptyMap

\* HashMap::get(k).or_else(...): the first of the maps that has the key
first_label(lookups, fallback) ==
  IF \E i \in DOMAIN lookups : lookups[i][2] \in DOMAIN lookups[i][1]
    THEN LET i == CHOOSE i \in DOMAIN lookups :
                    /\ lookups[i][2] \in DOMAIN lookups[i][1]
                    /\ \A j \in 1..(i - 1) : lookups[j][2] \notin DOMAIN lookups[j][1]
         IN lookups[i][1][lookups[i][2]]
    ELSE fallback

child_label_slug_first(child_alias_map, alias_map_raw, slug) == slug

\* the label of a child link: the alias of the graph phase, then the alias of
\* the raw literal, then the slug
child_label(child_alias_map, alias_map_raw, slug) ==
  first_label(<<<<child_alias_map, slug>>, <<alias_map_raw, slug \o DotMd>>>>, slug)

PagesDir == <<"p", "a", "g", "e", "s", "/">>
Up == <<".", ".", "/">>

child_href(multi_page, flat, is_root_index, slug) ==
  IF multi_page
    THEN (IF flat THEN slug \o DotHtml
          ELSE IF is_root_index THEN PagesDir \o slug \o DotHtml
          ELSE slug \o DotHtml)
    ELSE IndexHtml

child_links(d, multi_page, flat) ==
  IF d.is_index /\ d.children # <<>>
    THEN [i \in DOMAIN d.children |->
            Anchor(child_href(multi_page, flat, d.is_root_index, d.children[i]),
                   html_escape_text(child_label(d.child_aliases,
                                                contents_alias_map(d.frontmatter, d.is_index),
                                                d.children[i])))]
    ELSE <<>>

\* the child links as written under the contents key: on a non-root page of
\* the nested layout a leading pages/ is cut from the href
adjust_child_link(link, multi_page, flat, is_root_index) ==
  IF multi_page /\ ~flat /\ ~is_root_index /\ starts_with(link.href, PagesDir)
    THEN Anchor(SubSeq(link.href, Len(PagesDir) + 1, Len(link.href)), link.label)
    ELSE link

parent_label(parent_alias_map, raw_parent_alias_map, slug) ==
  first_label(<<<<parent_alias_map, slug>>, <<parent_alias_map, slug \o DotMd>>,
                <<raw_parent_alias_map, slug \o DotMd>>>>, slug)

parent_href(multi_page, flat, is_root_index, is_root_parent, slug) ==
  IF multi_page /\ ~flat
    THEN (IF is_root_index
            THEN (IF is_root_parent THEN IndexHtml ELSE PagesDir \o slug \o DotHtml)
          ELSE IF is_root_parent THEN Up \o IndexHtml
          ELSE Up \o PagesDir \o slug \o DotHtml)
  ELSE IF multi_page
    THEN (IF is_root_parent THEN IndexHtml ELSE slug \o DotHtml)
  ELSE IndexHtml

structural_parent_links(d, multi_page, flat, root) ==
  [i \in DOMAIN d.parents |->
     Anchor(parent_href(multi_page, flat, d.is_root_index, root = Some(d.parents[i]),
                        d.parents[i]),
            html_escape_text(parent_label(d.parent_aliases,
                                          raw_alias_map(d.raw_part_of, EmptyMap),
                                          d.parents[i])))]

\* str::strip_suffix(p).unwrap_or(other)
strip_suffix_or(s, p, other) ==
  IF ends_with(s, p) THEN SubSeq(s, 1, Len(s) - Len(p)) ELSE other

\* the slug read back from the href of a link already pushed
href_slug(href) == strip_suffix_or(rsplit_next(href, "/"), DotHtml, href)

extra_href(multi_page, flat, is_root_index, slug) ==
  IF multi_page /\ ~flat
    THEN (IF is_root_index THEN PagesDir \o slug \o DotHtml
          ELSE Up \o PagesDir \o slug \o DotHtml)
  ELSE IF multi_page THEN slug \o DotHtml
  ELSE IndexHtml

\* the loop over raw_parent_alias_map, in the order keys of its iteration:
\* a link for each key whose slug is not in existing yet
RECURSIVE extra_parent_links(_, _, _, _, _, _)
extra_parent_links(keys, m, existing, multi_page, flat, is_root_index) ==
  IF keys = <<>> THEN <<>>
  ELSE LET slug_candidate == slugify(strip_suffix_or(keys[1], DotMd, keys[1]))
       IN IF slug_candidate \in existing
            THEN extra_parent_links(Tail(keys), m, existing, multi_page, flat, is_root_index)
            ELSE <<Anchor(extra_href(multi_page, flat, is_root_index, slug_candidate),
                          html_escape_text(m[keys[1]]))>>
                 \o extra_parent_links(Tail(keys), m, existing \cup {slug_candidate},
                                       multi_page, flat, is_root_index)

parent_links(d, multi_page, flat, root, keys) ==
  LET structural == structural_parent_links(d, multi_page, flat, root)
      existing == SeqToSet(d.parents) \cup {href_slug(structural[i].href) : i \in DOMAIN structural}
  IN structural \o extra_parent_links(keys, raw_alias_map(d.raw_part_of, EmptyMap), existing,
                                      multi_page, flat, d.is_root_index)

\* the keys of the mapping in insertion order, reachable moved to the end
ordered(value) ==
  SelectSeq(value, LAMBDA l : l.k # "reachable") \o SelectSeq(value, LAMBDA l : l.k = "reachable")

\* push_maybe_md_links(inline_yaml(v)): each literal of the form [text](url)
\* with a non-empty text becomes a link to the url as written
md_links(line) ==
  IF line.ty # "plain" \/ line.k \notin {"contents", "part_of"} THEN <<>>
  ELSE LET lits == SelectSeq(line.v, LAMBDA r : r.kind = "link" /\ r.alias # <<>>)
       IN [i \in DOMAIN lits |-> Anchor(html_escape_text(lits[i].target),
                                        html_escape_text(lits[i].alias))]

\* one <li> of the list: the links written for the contents and part_of
\* keys, the value as written (with its Markdown links) for the others
metadata_item(line, d, multi_page, flat, root, keys) ==
  IF line.k = "contents" /\ child_links(d, multi_page, flat) # <<>>
    THEN [key |-> line.k, kind |-> "links",
          links |-> [i \in DOMAIN child_links(d, multi_page, flat) |->
                       adjust_child_link(child_links(d, multi_page, flat)[i],
                                         multi_page, flat, d.is_root_index)]]
  ELSE IF line.k = "part_of" /\ parent_links(d, multi_page, flat, root, keys) # <<>>
    THEN [key |-> line.k, kind |-> "links",
          links |-> parent_links(d, multi_page, flat, root, keys)]
  ELSE [key |-> line.k, kind |-> "value", links |-> md_links(line)]

\* the fragment: the empty string when the frontmatter is not a non-empty
\* mapping, else one item for each key
build_metadata_html(d, multi_page, flat, root, keys) ==
  [i \in DOMAIN ordered(d.frontmatter) |->
     metadata_item(ordered(d.frontmatter)[i], d, multi_page, flat, root, keys)]

\* the orders in which a HashMap may yield its keys: any order
Perms(S) ==
  {p \in [1..Cardinality(S) -> S] : \A i, j \in 1..Cardinality(S) : i # j => p[i] # p[j]}

\* for each document, an iteration order of its raw_parent_alias_map
HashOrders(docs) ==
  {f \in [DOMAIN docs -> UNION {Perms(DOMAIN raw_alias_map(docs[i].raw_part_of, EmptyMap)) :
                                  i \in DOMAIN docs}] :
     \A i \in DOMAIN docs : f[i] \in Perms(DOMAIN raw_alias_map(docs[i].raw_part_of, EmptyMap))}

PageOutput(d, multi_page, flat, root, keys) ==
  [id |-> d.id,
   source_path |-> d.abs_path,
   file_name |-> file_name(d, multi_page),
   title |-> d.title,
   html |-> d.html,
   metadata_html |-> build_metadata_html(d, multi_page, flat, root, keys),
   frontmatter |-> d.frontmatter,
   is_root_index |-> d.is_root_index,
   is_index |-> d.is_index,
   parents |-> d.parents,
   children |-> d.children,
   warnings |-> d.warnings]

NoArtifacts ==
  [pages |-> <<>>, attachments |-> <<>>, warnings |-> <<>>, multi_page |-> FALSE,
   root_slug |-> None]

BuildArtifacts(rq, st, orders) ==
  [pages |-> [i \in DOMAIN st.docs |->
                PageOutput(st.docs[i], is_multi_page(st.docs), rq.opts.flat,
                           root_slug(st.docs), orders[i])],
   attachments |-> st.plan,
   warnings |-> st.warnings_global \o flatten([i \in DOMAIN st.docs |-> st.docs[i].warnings]),
   multi_page |-> is_multi_page(st.docs),
   root_slug |-> root_slug(st.docs)]

emit_artifacts(rq, st, orders) ==
  [st EXCEPT !.out = BuildArtifacts(rq, st, orders), !.pc = "done"]

\* ------------------------------------------------------------------ inputs

P_index == <<"i", "n", "d", "e", "x">> \o DotMd
P_a == <<"a">> \o DotMd
P_b == <<"b">> \o DotMd
P_c == <<"s", "/", "c">> \o DotMd
P_dir == <<"s">>

RequiredLines(vis) ==
  <<YamlLine("title", <<>>), YamlLine("author", <<>>), YamlLine("created", <<>>),
    YamlLine("updated", <<>>), YamlLine("visibility", vis), YamlLine("format", <<>>),
    YamlLine("reachable", <<"y">>)>>

\* the lines of a header: the required fields but the missing ones, then the rest
Header(root, contents, part_of, vis, missing) ==
  SelectIdx(RequiredLines(vis), [i \in DOMAIN RequiredFields |-> RequiredFields[i] \notin missing])
  \o (IF root THEN <<YamlLine("this_file_is_root_index", TRUE)>> ELSE <<>>)
  \o (IF contents # <<>> THEN <<YamlLine("contents", contents)>> ELSE <<>>)
  \o (IF part_of # <<>> THEN <<YamlLine("part_of", part_of)>> ELSE <<>>)

\* the text of a file: hdr is "ok", "none" (no header block), "open" (opening
\* marker and no closing one) or "bad" (a header that is not YAML)
Text(hdr, yaml, body) ==
  IF hdr = "none" THEN body
  ELSE IF hdr = "open" THEN <<Marker>> \o yaml \o body
  ELSE IF hdr = "bad" THEN <<Marker>> \o yaml \o <<BadYamlLine, Marker>> \o body
  ELSE <<Marker>> \o yaml \o <<Marker>> \o body

File(text) == [is_file |-> TRUE, readable |-> TRUE, text |-> text]
Unreadable == [is_file |-> TRUE, readable |-> FALSE, text |-> <<>>]
Directory == [is_file |-> FALSE, readable |-> FALSE, text |-> <<>>]

\* a file with the given defect: "open", "bad", "unreadable" or "" for none
DocFile(defect, yaml, body) ==
  IF defect = "unreadable" THEN Unreadable
  ELSE File(Text(IF defect = "" THEN "ok" ELSE defect, yaml, body))

Public == <<PublicLabel>>
Private == <<<<"p", "r", "i", "v", "a", "t", "e">>>>

Options(include_nonpublic, flat, rewrite_links) ==
  [include_nonpublic |-> include_nonpublic, flat |-> flat, strict |-> FALSE,
   rewrite_links |-> rewrite_links]

NoDisk == [files |-> {}, dirs |-> {}]

Request(entry, opts, fs, disk) == [entry |-> entry, opts |-> opts, fs |-> fs, disk |-> disk]

SeqsUpTo(n, S) == UNION {[1..k -> S] : k \in 0..n}

L(target) == Link(<<"T">>, target)

\* the choices of the loader specification
IndexTargets == {L(P_a), L(<<"a">>), L(P_b), L(<<"z">> \o DotMd)}
AContents == {<<>>, <<L(P_c), Plain>>, <<L(P_index), L(P_a)>>}
BContents == {<<>>, <<L(P_dir), L(P_c)>>}
Defects == {<<P_a, "">>, <<P_a, "open">>, <<P_a, "bad">>, <<P_a, "unreadable">>,
            <<P_b, "open">>}

defect_of(d, path) == IF d[1] = path THEN d[2] ELSE ""

LoaderFs(rootI, rootA, cI, cA, cB, d) ==
  (P_index :> DocFile(defect_of(d, P_index), Header(rootI, cI, <<>>, Public, {}),
                      <<MdLink(P_a), MdText>>))
  @@ (P_a :> DocFile(defect_of(d, P_a), Header(rootA, cA, <<L(P_index)>>, Public, {}),
                     <<MdLink(P_index)>>))
  @@ (P_b :> DocFile(defect_of(d, P_b), Header(FALSE, cB, <<>>, Public, {"author"}),
                     <<MdText>>))
  @@ (P_c :> DocFile("", Header(FALSE, <<L(<<".", ".", "/">> \o P_a)>>, <<>>, Public, {}),
                     <<MdLink(<<".", ".", "/">> \o P_a)>>))
  @@ (P_dir :> Directory)

LoaderRequests ==
  {Request(entry, Options(FALSE, FALSE, TRUE), LoaderFs(rootI, rootA, cI, cA, cB, d), NoDisk) :
     entry \in {P_index, P_a}, rootI \in BOOLEAN, rootA \in BOOLEAN,
     cI \in SeqsUpTo(MaxContents, IndexTargets), cA \in AContents, cB \in BContents,
     d \in Defects}

\* the choices of the rewriter specification: hrefs "a.md", "index.md#a.md",
\* "../s/c.md", "z.md" (no such document) and "A.MD" (no such file name)
Hrefs ==
  {P_a, P_index \o <<"#">> \o P_a, <<".", ".", "/">> \o P_c, <<"z">> \o DotMd,
   <<"A", ".", "M", "D">>}

LinkLines(urls) == [i \in DOMAIN urls |-> MdLink(urls[i])]

ImageLines(urls) == [i \in DOMAIN urls |-> MdImage(urls[i])]

RewriteFs(rootI, rootA, visC, links) ==
  (P_index :> File(Text("ok", Header(rootI, <<L(P_a), L(P_c)>>, <<>>, Public, {}),
                        LinkLines(links) \o <<MdText>>)))
  @@ (P_a :> File(Text("ok", Header(rootA, <<L(P_index)>>, <<L(P_index)>>, Public, {}),
                       LinkLines(links))))
  @@ (P_c :> File(Text("ok", Header(FALSE, <<>>, <<>>, visC, {}), LinkLines(links))))

RewriteRequests ==
  {Request(entry, Options(FALSE, flat, rw), RewriteFs(rootI, rootA, visC, links), NoDisk) :
     entry \in {P_index, P_a}, rootI \in BOOLEAN, rootA \in BOOLEAN, flat \in BOOLEAN,
     rw \in BOOLEAN, visC \in {Public, Private}, links \in SeqsUpTo(MaxLinks, Hrefs)}

\* the choices of the attachment specification: the disk holds img.png and
\* s/img.png; the values are "img.png", "./img.png", "../img.png",
\* "s/img.png" and "s" (a directory)
Img == <<"i", "m", "g", ".", "p", "n", "g">>

Img1 == <<"i", "m", "g", "-", "1", ".", "p", "n", "g">>

AttachDisk == [files |-> {Img, P_dir \o Slash \o Img, Img1}, dirs |-> {P_dir}]

Srcs ==
  {Img, <<".", "/">> \o Img, <<".", ".", "/">> \o Img, P_dir \o Slash \o Img, P_dir,
   Img1, <<".", ".", "/">> \o Img1}

AttachFs(imagesI, imageC) ==
  (P_index :> File(Text("ok", Header(TRUE, <<L(P_c)>>, <<>>, Public, {}),
                        ImageLines(imagesI) \o <<MdLink(<<"#">>)>>)))
  @@ (P_c :> File(Text("ok", Header(FALSE, <<>>, <<>>, Public, {}),
                       <<MdImage(imageC), MdLink(P_index)>>)))

AttachRequests ==
  {Request(P_index, Options(FALSE, flat, TRUE), AttachFs(imagesI, imageC), AttachDisk) :
     flat \in BOOLEAN, imagesI \in SeqsUpTo(MaxImages, Srcs), imageC \in Srcs}

\* the files of the metadata choices: index.md, a.md and b.md list each
\* other, u.md is a document no content list names, z/b.md does not exist
MaxPartOf == 2

P_u == <<"u">> \o DotMd
P_ghost == <<"z", "/", "b">> \o DotMd

MetaIndexContents ==
  {<<Link(<<"A", "&">>, P_a), Link(<<"B">>, P_b)>>,
   <<Link(<<>>, P_b), Link(<<"X">>, P_ghost), Link(<<"A">>, <<"a">>)>>,
   <<Link(<<"A">>, P_a)>>,
   <<Link(<<"S">>, P_index), Link(<<"A">>, P_a)>>}

MetaAContents ==
  {<<>>, <<Link(<<"H">>, P_index)>>, <<Link(<<>>, P_b)>>,
   <<Link(<<"B">>, P_b), Link(<<"C">>, P_b)>>}

MetaAPartOf == {<<>>, <<Link(<<"R">>, <<"i", "n", "d", "e", "x">>)>>}

PartOfEntries == {Link(<<"R">>, P_index), Link(<<"Q">>, P_a), Link(<<"U">>, P_u)}

MetaFs(root, cI, cA, pA, pB) ==
  (P_index :> DocFile("", Header(root = P_index, cI, <<>>, Public, {}), <<>>))
  @@ (P_a :> DocFile("", Header(root = P_a, cA, pA, Public, {}), <<>>))
  @@ (P_b :> DocFile("", Header(FALSE, <<>>, pB, Public, {}), <<>>))
  @@ (P_u :> DocFile("", Header(FALSE, <<>>, <<>>, Public, {}), <<>>))

\* the visibility choices: public, private, both (public written with a
\* space before it), and an empty list
VisChoices == {Public, Private, Private \o <<<<Space>> \o PublicLabel>>, <<>>}

FilterFs(visI, visA, visB, cA) ==
  (P_index :> DocFile("", Header(TRUE, <<L(P_a), L(P_b)>>, <<>>, visI, {}), <<>>))
  @@ (P_a :> DocFile("", Header(FALSE, cA, <<>>, visA, {}), <<>>))
  @@ (P_b :> DocFile("", Header(FALSE, <<>>, <<>>, visB, {}), <<>>))

FilterRequests ==
  {Request(P_index, Options(nonpublic, FALSE, TRUE), FilterFs(visI, visA, visB, cA), NoDisk) :
     nonpublic \in BOOLEAN, visI \in VisChoices, visA \in VisChoices, visB \in VisChoices,
     cA \in {<<>>, <<L(P_b)>>}}

\* the header choices of one document: required fields that are absent,
\* one that is null, the forms of reachable ("string", "blank", "empty" for
\* an empty sequence, "seq"), and a version given as a number
MaxAbsent == 2

ReachableLine(form) ==
  IF form = "string" THEN YamlLine("reachable", <<"y">>)
  ELSE IF form = "blank" THEN YamlLine("reachable", <<Space>>)
  ELSE IF form = "empty" THEN SeqLine("reachable", <<>>)
  ELSE SeqLine("reachable", <<"y">>)

FieldLine(f, nullf, form) ==
  IF f = nullf THEN NullLine(f)
  ELSE IF f = "reachable" THEN ReachableLine(form)
  ELSE RequiredLines(Public)[CHOOSE i \in DOMAIN RequiredFields : RequiredFields[i] = f]

FieldsHeader(absent, nullf, form, mistyped) ==
  SelectIdx([i \in DOMAIN RequiredFields |-> FieldLine(RequiredFields[i], nullf, form)],
            [i \in DOMAIN RequiredFields |-> RequiredFields[i] \notin absent])
  \o (IF mistyped THEN <<MistypedLine("version")>> ELSE <<>>)

FieldRequests ==
  {Request(P_a, Options(FALSE, FALSE, TRUE),
           (P_a :> DocFile("", FieldsHeader(absent, nullf, form, mistyped), <<MdText>>)),
           NoDisk) :
     absent \in {x \in SUBSET SeqToSet(RequiredFields) : Cardinality(x) <= MaxAbsent},
     nullf \in SeqToSet(RequiredFields) \cup {"none"},
     form \in {"string", "blank", "empty", "seq"}, mistyped \in BOOLEAN}

\* the choices of the slug specification: one document whose file name is a
\* stem of up to MaxName characters (an upper-case and a lower-case letter, a
\* digit, a hyphen, a space and a dot) and ".md", with a title of its own or
\* without one
MaxName == 4

NameChars == {"A", "b", "1", "-", " ", "."}

Stems == SeqsUpTo(MaxName, NameChars) \ {<<>>}

TitleText == <<"T", " ", "t">>

TitledHeader(titled) ==
  IF titled
    THEN <<YamlLine("title", TitleText)>> \o Header(FALSE, <<>>, <<>>, Public, {"title"})
    ELSE Header(FALSE, <<>>, <<>>, Public, {"title"})

SlugRequests ==
  {Request(stem \o DotMd, Options(FALSE, FALSE, TRUE),
           (stem \o DotMd :> DocFile("", TitledHeader(titled), <<MdText>>)), NoDisk) :
     stem \in Stems, titled \in BOOLEAN}

\* the choices of the header specification: one document whose text is up to
\* MaxLines lines, each the marker, a line `title: t` or a line that is not
\* YAML
MaxLines == 4

LineChoices == {Marker, YamlLine("title", <<"t">>), BadYamlLine}

SplitRequests ==
  {Request(P_a, Options(FALSE, FALSE, TRUE), (P_a :> File(text)), NoDisk) :
     text \in SeqsUpTo(MaxLines, LineChoices)}

\* the entry is the root index, or b.md built on its own
MetaRequests ==
  {Request(IF single THEN P_b ELSE root, Options(FALSE, flat, TRUE),
           MetaFs(root, cI, cA, pA, pB), NoDisk) :
     root \in {P_index, P_a}, cI \in MetaIndexContents, cA \in MetaAContents,
     pA \in MetaAPartOf, pB \in SeqsUpTo(MaxPartOf, PartOfEntries),
     flat \in BOOLEAN, single \in BOOLEAN}

\* the builds of one process: a nested site with an image, a single page
\* that links to a document of the other site, a site whose second
\* document opens a header block and never closes it, and a page that is
\* part of two documents no content list leads to
ParRequests ==
  {Request(P_index, Options(FALSE, FALSE, TRUE),
           AttachFs(<<Img>>, <<".", ".", "/">> \o Img), AttachDisk),
   Request(P_a, Options(FALSE, TRUE, TRUE),
           RewriteFs(FALSE, FALSE, Public, <<P_index, <<".", ".", "/">> \o P_c>>), NoDisk),
   Request(P_index, Options(TRUE, FALSE, FALSE),
           LoaderFs(TRUE, FALSE, <<L(P_b), L(P_a)>>, <<>>, <<>>, <<P_a, "open">>), NoDisk),
   Request(P_b, Options(FALSE, TRUE, TRUE),
           MetaFs(P_index, <<>>, <<>>, <<>>, <<Link(<<"Q">>, P_a), Link(<<"U">>, P_u)>>),
           NoDisk)}

\* the state of a build_site call that has just been entered
Started(rq) ==
  [pc |-> "collect", queue |-> <<rq.entry>>, visited |-> EmptyMap, order |-> <<>>,
   expanded |-> {}, read |-> {}, warnings_global |-> <<>>, docs |-> <<>>, plan |-> <<>>,
   err |-> "", out |-> NoArtifacts]

\* a build slot in which no build_site call is made
NoRequest == Request(<<>>, Options(FALSE, FALSE, FALSE), EmptyMap, NoDisk)

Off == [Started(NoRequest) EXCEPT !.pc = "off", !.queue = <<>>]

\* a build slot whose build_site call has not been made yet
Idle == [Off EXCEPT !.pc = "idle"]

\* the whole of build_site as a function of its arguments
build_step(rq, st) ==
  IF st.pc = "collect" THEN (IF st.queue # <<>> THEN collect_iteration(rq, st) ELSE collect_out(st))
  ELSE IF st.pc = "link" THEN [st EXCEPT !.docs = link_graph(@, rq.fs), !.pc = "filter"]
  ELSE IF st.pc = "filter" THEN filter_docs(rq, st)
  ELSE IF st.pc = "rewrite" THEN rewrite_docs(rq, st)
  ELSE IF st.pc = "attach" THEN attach_docs(rq, st)
  ELSE emit_artifacts(rq, st, CHOOSE f \in HashOrders(st.docs) : TRUE)

RECURSIVE build_from(_, _)
build_from(rq, st) ==
  IF st.pc \in {"done", "failed", "off", "idle"} THEN st ELSE build_from(rq, build_step(rq, st))

build_site(rq) == build_from(rq, Started(rq))

\* ----------------------------------------------------------- state machine

\* collect_documents: one iteration of the loop
collect_step(b) ==
  /\ run[b].pc = "collect"
  /\ run[b].queue # <<>>
  /\ run' = [run EXCEPT ![b] = collect_iteration(req[b], @)]
  /\ UNCHANGED <<req, WARNING_COUNT>>

\* collect_documents returns
collect_done(b) ==
  /\ run[b].pc = "collect"
  /\ run[b].queue = <<>>
  /\ run' = [run EXCEPT ![b] = collect_out(@)]
  /\ UNCHANGED <<req, WARNING_COUNT>>

link_step(b) ==
  /\ run[b].pc = "link"
  /\ run' = [run EXCEPT ![b] = [@ EXCEPT !.docs = link_graph(@, req[b].fs), !.pc = "filter"]]
  /\ UNCHANGED <<req, WARNING_COUNT>>

filter_step(b) ==
  /\ run[b].pc = "filter"
  /\ run' = [run EXCEPT ![b] = filter_docs(req[b], @)]
  /\ UNCHANGED <<req, WARNING_COUNT>>

rewrite_step(b) ==
  /\ run[b].pc = "rewrite"
  /\ run' = [run EXCEPT ![b] = rewrite_docs(req[b], @)]
  /\ UNCHANGED <<req, WARNING_COUNT>>

attach_step(b) ==
  /\ run[b].pc = "attach"
  /\ run' = [run EXCEPT ![b] = attach_docs(req[b], @)]
  /\ UNCHANGED <<req, WARNING_COUNT>>

emit_step(b) ==
  /\ run[b].pc = "emit"
  /\ \E orders \in HashOrders(run[b].docs) :
       run' = [run EXCEPT ![b] = emit_artifacts(req[b], @, orders)]
  /\ UNCHANGED <<req, WARNING_COUNT>>

\* build_site is called with one of the given requests
call(b, requests) ==
  /\ run[b].pc = "idle"
  /\ \E rq \in requests :
       /\ req' = [req EXCEPT ![b] = rq]
       /\ run' = [run EXCEPT ![b] = Started(rq)]
  /\ UNCHANGED WARNING_COUNT

\* the build in slot b goes on
Step(b) ==
  \/ collect_step(b)
  \/ collect_done(b)
  \/ link_step(b)
  \/ filter_step(b)
  \/ rewrite_step(b)
  \/ attach_step(b)
  \/ emit_step(b)

\* one build in the process: slot 1 is about to call build_site
Init ==
  /\ req = [b \in Builds |-> NoRequest]
  /\ run = [b \in Builds |-> IF b = 1 THEN Idle ELSE Off]
  /\ WARNING_COUNT = 0

\* one build_site call on the files of the loader choices
Next == call(1, LoaderRequests) \/ \E b \in Builds : Step(b)

Spec == Init /\ [][Next]_vars

\* a build_site call that has been entered and has not returned
Running(b) == run[b].pc \notin {"off", "idle", "done", "failed"}

\* build_site runs on one thread without suspension points: a build that
\* has been called takes every step it can take. This is weak fairness of
\* Step(b), with the enabling condition of Step(b) written out: Step(b) can
\* be taken, and changes the state, exactly when Running(b)
SpecFair ==
  Spec /\ \A b \in Builds : ([]<>(~Running(b))) \/ ([]<><<Step(b)>>_vars)

\* one build_site call on the files of the rewriter choices
NextRewrite == call(1, RewriteRequests) \/ \E b \in Builds : Step(b)

SpecRewrite == Init /\ [][NextRewrite]_vars

\* one build_site call on the files of the attachment choices
NextAttach == call(1, AttachRequests) \/ \E b \in Builds : Step(b)

SpecAttach == Init /\ [][NextAttach]_vars

\* every slot is about to call build_site: the builds run one after the
\* other or interleaved, as on worker threads
InitPar ==
  /\ req = [b \in Builds |-> NoRequest]
  /\ run = [b \in Builds |-> Idle]
  /\ WARNING_COUNT = 0

NextPar == \E b \in Builds : call(b, ParRequests) \/ Step(b)

SpecPar == InitPar /\ [][NextPar]_vars

\* one build_site call on the files of the visibility choices
NextFilter == call(1, FilterRequests) \/ \E b \in Builds : Step(b)

SpecFilter == Init /\ [][NextFilter]_vars

\* one build_site call on a document of the header choices
NextFields == call(1, FieldRequests) \/ \E b \in Builds : Step(b)

SpecFields == Init /\ [][NextFields]_vars

\* one build_site call on the files of the metadata choices
NextMeta == call(1, MetaRequests) \/ \E b \in Builds : Step(b)

SpecMeta == Init /\ [][NextMeta]_vars

\* one build_site call on a document of the slug choices
NextSlug == call(1, SlugRequests) \/ \E b \in Builds : Step(b)

SpecSlug == Init /\ [][NextSlug]_vars

\* one build_site call on a document of the header choices
NextSplit == call(1, SplitRequests) \/ \E b \in Builds : Step(b)

SpecSplit == Init /\ [][NextSplit]_vars

\* ----------------------------------------------- run_build of the command line
\* run_build has its own loader, rewriter and emitter.  The state kept of a
\* run_build call is what its warning counter and its result depend on: the
\* queue, the loaded documents, and recorded, the number of warnings this
\* call has added to WARNING_COUNT.  WARNING_COUNT is the static AtomicUsize
\* of the process.  One loop iteration is one step; its fetch_adds are taken
\* together.

BuildOptions(strict) == [Options(FALSE, FALSE, TRUE) EXCEPT !.strict = strict]

\* check_required of the command line: the six fields it tests
cli_check_required(fm) ==
  SelectIdx(SubSeq(RequiredFields, 1, 6),
            [i \in 1..6 |-> ~fm_has(fm, RequiredFields[i])])

DiaryxDoc(path, fm, body) ==
  [id |-> slugify(IF fm_has(fm, "title") THEN fm["title"].v ELSE fs_file_name(path)),
   abs_path |-> path,
   visibility |-> normalize_string_or_list(fm),
   is_root_index |-> IF fm_has(fm, "this_file_is_root_index")
                       THEN fm["this_file_is_root_index"].v ELSE FALSE,
   is_index |-> normalize_contents(fm) # <<>>,
   contents_raw |-> normalize_contents(fm),
   html |-> render_markdown(body),
   warnings |-> cli_check_required(fm)]

\* a run_build call that has just been entered
Entered(rq) ==
  [pc |-> "collect", queue |-> <<rq.entry>>, visited |-> EmptyMap, order |-> <<>>,
   docs |-> <<>>, recorded |-> 0, result |-> ""]

NotCalled == [Entered(NoRequest) EXCEPT !.pc = "idle", !.queue = <<>>]

\* run_build returns Err from a `?`
Returned(st) == [st EXCEPT !.pc = "returned", !.result = "err", !.queue = <<>>]

\* the content-list targets that do not exist: one warning each
missing_targets(links, parent_dir, fs) ==
  SelectSeq(links, LAMBDA raw :
    /\ resolve_contents_link(raw, parent_dir, fs) # None
    /\ ~fs_exists(fs, resolve_contents_link(raw, parent_dir, fs)[1]))

\* one iteration of the loop of the command line's collect_documents
cli_collect_iteration(rq, st) ==
  LET path == Head(st.queue)
      rest == [st EXCEPT !.queue = Tail(st.queue)]
      fs == rq.fs
  IN
  IF path \in DOMAIN st.visited THEN rest
  ELSE IF fs_extension_lowercase(path) # Some(<<"m", "d">>) THEN rest
  ELSE IF ~fs_exists(fs, path) \/ ~fs_is_file(fs, path) \/ ~fs[path].readable
    THEN [rest EXCEPT !.recorded = @ + 1]
  ELSE
    LET split == split_frontmatter(fs[path].text)
        pf == parse_frontmatter(split)
    IN
    IF split.err \/ pf.err THEN Returned(rest)
    ELSE
      LET doc == DiaryxDoc(path, pf.fm, split.body_md)
          visited2 == (path :> doc) @@ st.visited
          open == doc.is_index
                    /\ (doc.is_root_index \/ entry_metadata_had_root(rq.entry, visited2))
      IN [rest EXCEPT
            !.visited = visited2,
            !.order = Append(@, path),
            !.recorded = @ + Len(doc.warnings)
                           + (IF open
                                THEN Len(missing_targets(doc.contents_raw, fs_parent(path), fs))
                                ELSE 0),
            !.queue = IF open
                        THEN @ \o enqueue_contents(doc.contents_raw, fs_parent(path), fs)
                        ELSE @]

cli_collect_out(st) ==
  [st EXCEPT !.docs = [i \in DOMAIN st.order |-> st.visited[st.order[i]]], !.pc = "rewrite"]

\* by_basename.get, then the fallback that ignores the case of ASCII letters
cli_mapping(docs, name) ==
  {i \in DOMAIN docs :
     to_ascii_lowercase(fs_file_name(docs[i].abs_path)) = to_ascii_lowercase(name)}

\* the urls that the command line's rewrite_internal_links leaves as they are
unmatched(docs) ==
  SelectSeq(flatten([i \in DOMAIN docs |-> docs[i].html]), LAMBDA e :
    /\ e.kind = "href" /\ href_md_match(e.val)
    /\ cli_mapping(docs, url_basename_norm(e.val)) = {})

cli_rewrite(st) == [st EXCEPT !.recorded = @ + Len(unmatched(st.docs)), !.pc = "emit"]

\* emit_site: the documents left out for their visibility give one warning;
\* no document to emit is an error
excluded(rq, docs) ==
  {i \in DOMAIN docs : ~is_public(docs[i]) /\ docs[i].abs_path # rq.entry}

emit_site(rq, st) ==
  LET warned == [st EXCEPT !.recorded =
                   @ + (IF ~rq.opts.include_nonpublic /\ excluded(rq, st.docs) # {}
                          THEN 1 ELSE 0)]
  IN IF st.docs = <<>> THEN Returned(warned) ELSE [warned EXCEPT !.pc = "strict"]

\* the end of run_build: the strict test reads the counter of the process
strict_check(rq, st, wc) ==
  [st EXCEPT !.pc = "returned",
             !.result = IF rq.opts.strict /\ wc > 0 THEN "err" ELSE "ok"]

\* the choices of the command line specification: a.md with every field,
\* a.md without an author, a root index that lists a private b.md and a z.md
\* that does not exist and links to z.md, a.md with an unclosed header, and
\* an a.md that cannot be read
P_z == <<"z">> \o DotMd

CliFiles ==
  {(P_a :> DocFile("", Header(FALSE, <<>>, <<>>, Public, {}), <<MdText>>)),
   (P_a :> DocFile("", Header(FALSE, <<>>, <<>>, Public, {"author"}), <<MdText>>)),
   (P_index :> DocFile("", Header(TRUE, <<L(P_b), L(P_z)>>, <<>>, Public, {}),
                       LinkLines(<<P_z>>)))
     @@ (P_b :> DocFile("", Header(FALSE, <<>>, <<>>, Private, {}), <<MdText>>)),
   (P_a :> DocFile("open", Header(FALSE, <<>>, <<>>, Public, {}), <<MdText>>)),
   (P_a :> Unreadable)}

CliRequests ==
  {Request(IF P_a \in DOMAIN fs THEN P_a ELSE P_index, BuildOptions(strict), fs, NoDisk) :
     fs \in CliFiles, strict \in BOOLEAN}

run_build(b) ==
  /\ run[b].pc = "idle"
  /\ \E rq \in CliRequests :
       /\ req' = [req EXCEPT ![b] = rq]
       /\ run' = [run EXCEPT ![b] = Entered(rq)]
  /\ UNCHANGED WARNING_COUNT

\* fetch_add of what the step has recorded
counted(b) == WARNING_COUNT' = WARNING_COUNT + (run'[b].recorded - run[b].recorded)

cli_collect_step(b) ==
  /\ run[b].pc = "collect" /\ run[b].queue # <<>>
  /\ run' = [run EXCEPT ![b] = cli_collect_iteration(req[b], @)]
  /\ counted(b)
  /\ UNCHANGED req

cli_collect_done(b) ==
  /\ run[b].pc = "collect" /\ run[b].queue = <<>>
  /\ run' = [run EXCEPT ![b] = cli_collect_out(@)]
  /\ UNCHANGED <<req, WARNING_COUNT>>

cli_rewrite_step(b) ==
  /\ run[b].pc = "rewrite"
  /\ run' = [run EXCEPT ![b] = cli_rewrite(@)]
  /\ counted(b)
  /\ UNCHANGED req

emit_site_step(b) ==
  /\ run[b].pc = "emit"
  /\ run' = [run EXCEPT ![b] = emit_site(req[b], @)]
  /\ counted(b)
  /\ UNCHANGED req

strict_step(b) ==
  /\ run[b].pc = "strict"
  /\ run' = [run EXCEPT ![b] = strict_check(req[b], @, WARNING_COUNT)]
  /\ UNCHANGED <<req, WARNING_COUNT>>

\* the run_build calls of one process, one after another or interleaved
InitCli ==
  /\ req = [b \in Builds |-> NoRequest]
  /\ run = [b \in Builds |-> NotCalled]
  /\ WARNING_COUNT = 0

NextCli ==
  \E b \in Builds :
    \/ run_build(b)
    \/ cli_collect_step(b)
    \/ cli_collect_done(b)
    \/ cli_rewrite_step(b)
    \/ emit_site_step(b)
    \/ strict_step(b)

SpecCli == InitCli /\ [][NextCli]_vars

\* ------------------------------------------------------------ the loader claims

Active(b) == run[b].pc # "off"

Loaded(b) == SeqToSet(run[b].order)

\* build_site has returned artifacts
Done(b) == run[b].pc = "done"

Pages(b) == run[b].out.pages

EntryIsRoot(b) ==
  req[b].entry \in DOMAIN run[b].visited /\ run[b].visited[req[b].entry].is_root_index

\* the paths the content list of a loaded document q put on the queue
Enqueued(b, q) ==
  IF q \in run[b].expanded
    THEN SeqToSet(enqueue_contents(run[b].visited[q].contents_raw, fs_parent(q), req[b].fs))
    ELSE {}

Referenced(b) == UNION {Enqueued(b, q) : q \in Loaded(b)}

\* C3: the content list of a loaded document is expanded exactly when it is
\* not empty and the document or the entry document is a root index; under
\* an entry that is not a root index no content list is expanded
C3_RecursionGate ==
  \A b \in Builds :
    /\ \A p \in DOMAIN run[b].visited :
         p \in run[b].expanded <=>
           /\ run[b].visited[p].contents_raw # <<>>
           /\ (run[b].visited[p].is_root_index \/ EntryIsRoot(b))
    /\ (req[b].entry \in DOMAIN run[b].visited /\ ~EntryIsRoot(b)) => run[b].expanded = {}
    /\ run[b].expanded \subseteq DOMAIN run[b].visited

\* a non-root index document other than the entry was expanded under a root entry
C3_Witness ==
  \E b \in Builds : \E p \in run[b].expanded :
    p # req[b].entry /\ ~run[b].visited[p].is_root_index /\ EntryIsRoot(b)
    /\ Enqueued(b, p) # {}

NoDuplicates(seq) == \A i, j \in DOMAIN seq : seq[i] = seq[j] => i = j

Slugs(docs) == [i \in DOMAIN docs |-> docs[i].id]

\* some content-list entry of document P resolves to the path of document C
ListsChild(b, P, C) ==
  \E k \in DOMAIN P.contents_raw :
    resolve_contents_link(P.contents_raw[k], fs_parent(P.abs_path), req[b].fs)
      = Some(C.abs_path)

\* C5: after link_graph, with pairwise distinct slugs, C is a child of P iff
\* P is a parent of C iff a content-list entry of P resolves to C's path; no
\* slug is listed twice; cycles and self-edges are recorded like other edges
C5_LinkGraphEdges ==
  \A b \in Builds :
    (run[b].pc = "filter" /\ NoDuplicates(Slugs(run[b].docs))) =>
      \A i, j \in DOMAIN run[b].docs :
        LET P == run[b].docs[i]
            C == run[b].docs[j]
        IN /\ (C.id \in SeqToSet(P.children)) <=> (P.id \in SeqToSet(C.parents))
           /\ (C.id \in SeqToSet(P.children)) <=> ListsChild(b, P, C)
           /\ NoDuplicates(P.children)
           /\ NoDuplicates(P.parents)

\* a document that lists itself and lies on a cycle, and a child listed twice
C5_Witness ==
  \E b \in Builds :
    /\ run[b].pc = "filter"
    /\ \E i, j \in DOMAIN run[b].docs :
         /\ i # j
         /\ run[b].docs[i].id \in SeqToSet(run[b].docs[i].children)
         /\ run[b].docs[j].id \in SeqToSet(run[b].docs[i].children)
         /\ run[b].docs[i].id \in SeqToSet(run[b].docs[j].children)
         /\ \E k, l \in DOMAIN run[b].docs[j].contents_raw :
              k # l /\ ListsChild(b, [run[b].docs[j] EXCEPT !.contents_raw = <<@[k]>>],
                                  run[b].docs[i])
                    /\ ListsChild(b, [run[b].docs[j] EXCEPT !.contents_raw = <<@[l]>>],
                                  run[b].docs[i])

\* the paths within k content-list steps of the entry
RECURSIVE Within(_, _)
Within(b, k) ==
  IF k = 0 THEN {req[b].entry}
  ELSE Within(b, k - 1) \cup UNION {Enqueued(b, q) : q \in Within(b, k - 1) \cap Loaded(b)}

Depth(b, p) ==
  CHOOSE k \in 0..Len(run[b].order) :
    p \in Within(b, k) /\ (k = 0 \/ p \notin Within(b, k - 1))

\* C6: collect_documents returns one document per path, in the order in
\* which the paths were loaded, the entry first and nearer documents before
\* farther ones (breadth first)
C6_TraversalOrder ==
  \A b \in Builds :
    run[b].pc \in {"link", "filter"} =>
      /\ NoDuplicates([i \in DOMAIN run[b].docs |-> run[b].docs[i].abs_path])
      /\ [i \in DOMAIN run[b].docs |-> run[b].docs[i].abs_path] = run[b].order
      /\ run[b].docs # <<>> => run[b].docs[1].abs_path = req[b].entry
      /\ \A i, j \in DOMAIN run[b].docs :
           i < j => Depth(b, run[b].docs[i].abs_path) <= Depth(b, run[b].docs[j].abs_path)

\* four documents on three levels were returned
C6_Witness ==
  \E b \in Builds :
    /\ run[b].pc = "link"
    /\ Len(run[b].docs) = 4
    /\ Depth(b, run[b].docs[4].abs_path) = 2
    /\ Depth(b, run[b].docs[3].abs_path) = 1

\* C7: collect_documents terminates, also on content lists with cycles and
\* self references: no path is loaded twice and the loop is left
C7_LoaderTerminates ==
  /\ [](\A b \in Builds : NoDuplicates(run[b].order))
  /\ \A b \in Builds : (run[b].pc = "collect") ~> (run[b].pc # "collect")

\* the loader has finished on documents that list each other and themselves
C7_Witness ==
  \E b \in Builds :
    /\ run[b].pc = "link"
    /\ \E p, q \in run[b].expanded :
         p # q /\ q \in Enqueued(b, p) /\ p \in Enqueued(b, q) /\ q \in Enqueued(b, q)

\* a text that opens a header block and never closes it
OpensUnclosed(text) ==
  text # <<>> /\ text[1] = Marker /\ \A i \in 2..Len(text) : text[i] # Marker

\* a text whose closed header block has a line that is not YAML
InvalidHeader(text) ==
  /\ text # <<>> /\ text[1] = Marker
  /\ \E j \in 2..Len(text) :
       /\ text[j] = Marker
       /\ \A i \in 2..(j - 1) : text[i] # Marker
       /\ \E i \in 2..(j - 1) : text[i].t # "yaml"

TextOf(b, p) == req[b].fs[p].text

\* C8: when a document read by the traversal opens a header block that is
\* never closed, build_site ends in an error and returns no artifacts
C8_UnterminatedIsFatal ==
  \A b \in Builds :
    (\E p \in run[b].read : OpensUnclosed(TextOf(b, p))) =>
      run[b].pc = "failed" /\ run[b].out = NoArtifacts

\* the build failed on a referenced document with an unclosed header block
C8_Witness ==
  \E b \in Builds :
    /\ run[b].pc = "failed"
    /\ \E p \in run[b].read : p # req[b].entry /\ OpensUnclosed(TextOf(b, p))

UnreadableDoc(b, p) ==
  /\ fs_is_file(req[b].fs, p)
  /\ fs_extension_lowercase(p) = Some(<<"m", "d">>)
  /\ ~req[b].fs[p].readable

SkippedWithWarning(b, p) ==
  /\ Warn("read", p) \in SeqToSet(run[b].out.warnings)
  /\ \A i \in DOMAIN run[b].out.pages : run[b].out.pages[i].source_path # p

\* C9 as stated: a build whose entry was loaded fails only on an unclosed
\* header block; an unreadable referenced file is skipped with a warning
C9_OnlyUnterminatedAborts ==
  \A b \in Builds :
    /\ (run[b].pc = "failed" /\ req[b].entry \in Loaded(b)) =>
         \E p \in run[b].read \ {req[b].entry} : OpensUnclosed(TextOf(b, p))
    /\ run[b].pc = "done" =>
         \A p \in Referenced(b) \ {req[b].entry} :
           UnreadableDoc(b, p) => SkippedWithWarning(b, p)

\* C9 amended: an unreadable referenced file is skipped with a warning and
\* the build goes on; a header block that is not closed and a header that is
\* not valid YAML both abort the build, and nothing else read does
C9_ReadProblems ==
  \A b \in Builds :
    /\ (run[b].pc = "failed" /\ req[b].entry \in Loaded(b)) =>
         \E p \in run[b].read \ {req[b].entry} :
           OpensUnclosed(TextOf(b, p)) \/ InvalidHeader(TextOf(b, p))
    /\ (\E p \in run[b].read : OpensUnclosed(TextOf(b, p)) \/ InvalidHeader(TextOf(b, p))) =>
         run[b].pc = "failed" /\ run[b].out = NoArtifacts
    /\ run[b].pc = "done" =>
         \A p \in Referenced(b) \ {req[b].entry} :
           UnreadableDoc(b, p) => SkippedWithWarning(b, p)

\* a build that ended well although a referenced file could not be read
C9_Witness ==
  \E b \in Builds :
    /\ run[b].pc = "done"
    /\ \E p \in Referenced(b) \ {req[b].entry} : UnreadableDoc(b, p)

\* ---------------------------------------------------------- the rewriter claims

\* the html of a remaining document as it was rendered, before any rewriting
RenderedOf(b, path) == render_markdown(split_frontmatter(req[b].fs[path].text).body_md)

OriginalHtml(b, d) == RenderedOf(b, d.abs_path)

\* the part of a URL before its query or fragment
PagePart(url) == split_next(url, {"?", "#"})

TargetsMdPage(url) ==
  Len(PagePart(url)) > Len(DotMd) /\ ends_with(to_ascii_lowercase(PagePart(url)), DotMd)

\* the file name a URL names, with %20 read as a space
LinkedName(url) == decode_pct20(rsplit_next(PagePart(url), "/"))

Layout(b) ==
  IF (\E i \in DOMAIN run[b].docs : run[b].docs[i].is_root_index) /\ Len(run[b].docs) > 1
    THEN (IF req[b].opts.flat THEN "flat" ELSE "nested")
    ELSE "single"

\* the table of the specification
TableHref(layout, from_root, to_root, slug) ==
  CASE layout = "nested" /\ from_root /\ to_root -> IndexHtml
    [] layout = "nested" /\ from_root /\ ~to_root ->
         <<"p", "a", "g", "e", "s", "/">> \o slug \o DotHtml
    [] layout = "nested" /\ ~from_root /\ to_root -> <<".", ".", "/">> \o IndexHtml
    [] layout = "nested" /\ ~from_root /\ ~to_root -> slug \o DotHtml
    [] layout = "flat" /\ to_root -> IndexHtml
    [] layout = "flat" /\ ~to_root -> slug \o DotHtml
    [] layout = "single" -> IndexHtml

Rewritten(b) == run[b].pc = "attach" /\ req[b].opts.rewrite_links

\* C1: after the rewriting pass of a build with rewrite_links, every href
\* that targets a .md page and names the file of a remaining document holds
\* the entry of the table for the layout, for whether the current document
\* is the root index and for whether the target is, and for the target's slug
C1_RewriteTable ==
  \A b \in Builds :
    Rewritten(b) =>
      \A i \in DOMAIN run[b].docs :
        \A k \in DOMAIN OriginalHtml(b, run[b].docs[i]) :
          LET d == run[b].docs[i]
              e == OriginalHtml(b, d)[k]
              Named == {j \in DOMAIN run[b].docs :
                          fs_file_name(run[b].docs[j].abs_path) = LinkedName(e.val)}
          IN (e.kind = "href" /\ TargetsMdPage(e.val) /\ Named # {}) =>
               \E j \in Named :
                 PagePart(d.html[k].val) =
                   TableHref(Layout(b), d.is_root_index, run[b].docs[j].is_root_index,
                             run[b].docs[j].id)

\* a nested site: the root links to pages/{slug}.html and to itself, a page
\* links to ../index.html and to a sibling
C1_Witness ==
  \E b \in Builds :
    /\ Rewritten(b) /\ Layout(b) = "nested"
    /\ \E i, j \in DOMAIN run[b].docs :
         /\ run[b].docs[i].is_root_index /\ ~run[b].docs[j].is_root_index
         /\ \E k \in DOMAIN run[b].docs[i].html :
              starts_with(run[b].docs[i].html[k].val, <<"p", "a", "g", "e", "s", "/">>)
         /\ \E k \in DOMAIN run[b].docs[i].html :
              PagePart(run[b].docs[i].html[k].val) = IndexHtml
         /\ \E k \in DOMAIN run[b].docs[j].html :
              PagePart(run[b].docs[j].html[k].val) = <<".", ".", "/">> \o IndexHtml
         /\ \E k \in DOMAIN run[b].docs[j].html :
              run[b].docs[j].html[k].val = run[b].docs[j].id \o DotHtml

\* C2: rewrite_internal_links applied to the documents it has rewritten,
\* with the same options, changes the html of no document
C2_RewriteIdempotent ==
  \A b \in Builds :
    Rewritten(b) => rewrite_internal_links(run[b].docs, req[b].opts) = run[b].docs

\* the first pass rewrote an href whose result the pattern matches again
C2_Witness ==
  \E b \in Builds :
    /\ Rewritten(b)
    /\ \E i \in DOMAIN run[b].docs : \E k \in DOMAIN run[b].docs[i].html :
         /\ run[b].docs[i].html[k].val # OriginalHtml(b, run[b].docs[i])[k].val
         /\ href_md_match(run[b].docs[i].html[k].val)

\* -------------------------------------------------------- the attachment claim

\* the html of page i of the artifacts as it was rendered
PageSource(b, i) == RenderedOf(b, run[b].out.pages[i].source_path)

\* the file on the disk that element k of page i referred to
FileOf(b, r) ==
  physical(path_join(fs_parent(run[b].out.pages[r[1]].source_path),
                     PageSource(b, r[1])[r[2]].val))

\* the references of a build to files that are on the disk: <<page, element>>
FileRefs(b) ==
  {r \in UNION {{<<i, k>> : k \in DOMAIN PageSource(b, i)} : i \in DOMAIN run[b].out.pages} :
     /\ PageSource(b, r[1])[r[2]].kind \in {"src", "href"}
     /\ FileOf(b, r) \in req[b].disk.files}

\* the name under assets/ that a rewritten reference points at
AssetOf(b, r) ==
  LET v == run[b].out.pages[r[1]].html[r[2]].val
  IN IF starts_with(v, <<".", ".", "/">>) THEN SubSeq(v, 4, Len(v)) ELSE v

\* the entries of the copy plan whose source is the file f
PlanEntries(b, f) ==
  {m \in DOMAIN run[b].out.attachments : physical(run[b].out.attachments[m].source) = f}

\* C4: when two documents of a build refer to one physical file, the copy
\* plan of the artifacts has exactly one entry for that file and the two
\* rewritten references point at one target
C4_AttachmentDedup ==
  \A b \in Builds :
    run[b].pc = "done" =>
      \A r1, r2 \in FileRefs(b) :
        (r1[1] # r2[1] /\ FileOf(b, r1) = FileOf(b, r2)) =>
          /\ Cardinality(PlanEntries(b, FileOf(b, r1))) = 1
          /\ AssetOf(b, r1) = AssetOf(b, r2)

\* the source path under which a reference is looked up and planned
SourceOf(b, r) ==
  attachment_source([abs_path |-> Pages(b)[r[1]].source_path], PageSource(b, r[1])[r[2]].val)

\* the order in which the attachment pass meets the references
Before(r1, r2) == r1[1] < r2[1] \/ (r1[1] = r2[1] /\ r1[2] < r2[2])

\* the sources met before the first reference to the source of r
EarlierSources(b, r) ==
  {SourceOf(b, q) : q \in {q \in FileRefs(b) : Before(q, r) /\ SourceOf(b, q) # SourceOf(b, r)}}

IsFirstRef(b, r) == \A q \in FileRefs(b) : Before(q, r) => SourceOf(b, q) # SourceOf(b, r)

PlanOf(b, src) == {m \in DOMAIN run[b].out.attachments : run[b].out.attachments[m].source = src}

\* the target of a source in the copy plan
TargetOf(b, src) == run[b].out.attachments[CHOOSE m \in PlanOf(b, src) : TRUE].target

Stem(name) == IF rsplit_once(name, ".") = None THEN name ELSE rsplit_once(name, ".")[1][1]

Ext(name) == IF rsplit_once(name, ".") = None THEN <<>> ELSE <<".">> \o rsplit_once(name, ".")[1][2]

\* name is base with the smallest -N before the extension that is not taken
SmallestSuffixed(name, base, taken) ==
  \E n \in 1..(Cardinality(taken) + 1) :
    /\ name = Stem(base) \o <<"-">> \o decimal(n) \o Ext(base)
    /\ \A m \in 1..(n - 1) : (Stem(base) \o <<"-">> \o decimal(m) \o Ext(base)) \in taken

\* every reference to a file has the target of its source, one plan entry
\* for each source, and no two entries with one target
TargetsAreInjective(b) ==
  /\ \A r \in FileRefs(b) :
       /\ Cardinality(PlanOf(b, SourceOf(b, r))) = 1
       /\ AssetOf(b, r) = TargetOf(b, SourceOf(b, r))
  /\ \A m, n \in DOMAIN run[b].out.attachments :
       m # n => run[b].out.attachments[m].target # run[b].out.attachments[n].target

\* C17 as stated: targets are a function of the source and injective; the
\* first source with a base file name gets assets/{name}, and a later source
\* with the same base file name gets the name with the smallest unused -N
C17_FirstOfBaseKeepsName ==
  \A b \in Builds :
    Done(b) =>
      /\ TargetsAreInjective(b)
      /\ \A r \in FileRefs(b) :
           IsFirstRef(b, r) =>
             LET base == fs_file_name(SourceOf(b, r))
                 taken == {SubSeq(TargetOf(b, q), Len(Assets) + 1, Len(TargetOf(b, q))) :
                             q \in EarlierSources(b, r)}
             IN IF \A q \in EarlierSources(b, r) : fs_file_name(q) # base
                  THEN TargetOf(b, SourceOf(b, r)) = Assets \o base
                  ELSE /\ starts_with(TargetOf(b, SourceOf(b, r)), Assets)
                       /\ SmallestSuffixed(SubSeq(TargetOf(b, SourceOf(b, r)), Len(Assets) + 1,
                                                  Len(TargetOf(b, SourceOf(b, r)))),
                                           base, taken)

\* C17, amended: targets are a function of the source and injective; a
\* source whose base file name is not the name of an earlier target gets
\* assets/{name}, and a source whose base file name is taken, by an earlier
\* source of that name or by a suffixed name given earlier, gets the name
\* with the smallest unused -N
C17_AttachmentNames ==
  \A b \in Builds :
    Done(b) =>
      /\ TargetsAreInjective(b)
      /\ \A r \in FileRefs(b) :
           IsFirstRef(b, r) =>
             LET base == fs_file_name(SourceOf(b, r))
                 taken == {SubSeq(TargetOf(b, q), Len(Assets) + 1, Len(TargetOf(b, q))) :
                             q \in EarlierSources(b, r)}
             IN IF base \notin taken
                  THEN TargetOf(b, SourceOf(b, r)) = Assets \o base
                  ELSE /\ starts_with(TargetOf(b, SourceOf(b, r)), Assets)
                       /\ SmallestSuffixed(SubSeq(TargetOf(b, SourceOf(b, r)), Len(Assets) + 1,
                                                  Len(TargetOf(b, SourceOf(b, r)))),
                                           base, taken)

\* a build with three sources: two of one base file name, the second of
\* which got the suffix -1, and a file of that very name, which got -1-1
C17_Witness ==
  \E b \in Builds :
    /\ Done(b)
    /\ \E m, n \in DOMAIN run[b].out.attachments :
         /\ run[b].out.attachments[m].target = Assets \o Img1
         /\ fs_file_name(run[b].out.attachments[m].source) = Img
         /\ run[b].out.attachments[n].target
              = Assets \o <<"i", "m", "g", "-", "1", "-", "1", ".", "p", "n", "g">>

\* ------------------------------------------------------------- statelessness

\* C10: the result of a build, artifacts or error, is the function build_site
\* of its own entry, options and files, whatever the other builds of the
\* process have done before it or do between its steps
C10_Stateless ==
  \A b \in Builds :
    run[b].pc \in {"done", "failed"} =>
      /\ run[b].out = build_site(req[b]).out
      /\ run[b].err = build_site(req[b]).err
      /\ run[b].pc = build_site(req[b]).pc

\* a build ended after another build had loaded documents and before that
\* build ended, and a third outcome: two builds of different requests ended
C10_Witness ==
  \E b, c \in Builds :
    /\ b # c
    /\ run[b].pc = "done" /\ run[b].out.pages # <<>>
    /\ run[c].pc \in {"rewrite", "attach"} /\ run[c].docs # <<>>
    /\ req[b] # req[c]
    /\ \E i \in DOMAIN run[c].docs : \E k \in DOMAIN run[b].out.pages[1].html :
         fs_file_name(run[c].docs[i].abs_path)
           = LinkedName(run[b].out.pages[1].html[k].val)

\* ------------------------------------------------- the metadata fragment

\* the lines of the header of a file as written
HeaderOf(b, path) == split_frontmatter(TextOf(b, path)).frontmatter_yaml

\* the list a file's header gives under a key, empty without the key
ListedUnder(b, path, k) ==
  IF \E i \in DOMAIN HeaderOf(b, path) : HeaderOf(b, path)[i].k = k
    THEN HeaderOf(b, path)[CHOOSE i \in DOMAIN HeaderOf(b, path) :
                             HeaderOf(b, path)[i].k = k].v
    ELSE <<>>

\* the loaded document a raw literal of the file at path points to: its
\* slug, or None
TargetSlug(b, path, raw) ==
  LET r == resolve_contents_link(raw, fs_parent(path), req[b].fs)
  IN IF r # None /\ r[1] \in Loaded(b) THEN Some(slug_of_path(r[1])) ELSE None

Aliased(raw) == raw.kind = "link" /\ raw.alias # <<>>

\* the item of a page's fragment for a key, None when there is none
ItemOf(page, k) ==
  IF \E i \in DOMAIN page.metadata_html : page.metadata_html[i].key = k
    THEN Some(page.metadata_html[CHOOSE i \in DOMAIN page.metadata_html :
                                   page.metadata_html[i].key = k])
    ELSE None

\* the links a page's fragment shows under a key
LinksUnder(page, k) ==
  IF ItemOf(page, k) # None /\ ItemOf(page, k)[1].kind = "links"
    THEN ItemOf(page, k)[1].links ELSE <<>>

\* the last element of a list that satisfies a test, None when none does
LastThat(list, Test(_)) ==
  IF \E i \in DOMAIN list : Test(list[i])
    THEN Some(list[CHOOSE i \in DOMAIN list :
                     Test(list[i]) /\ \A j \in (i + 1)..Len(list) : ~Test(list[j])])
    ELSE None

\* the alias the linker derives for a child slug of the document at path
LinkerChildAlias(b, path, slug) ==
  LastThat(ListedUnder(b, path, "contents"),
           LAMBDA raw : Aliased(raw) /\ TargetSlug(b, path, raw) = Some(slug))

\* the alias of the raw content-list literal whose target basename matches
RawChildAlias(b, path, slug) ==
  LastThat(ListedUnder(b, path, "contents"),
           LAMBDA raw : Aliased(raw)
                        /\ normalize_target_basename_raw(raw.target) = slug \o DotMd)

ExpectedChildLabel(b, path, slug) ==
  IF LinkerChildAlias(b, path, slug) # None THEN LinkerChildAlias(b, path, slug)[1].alias
  ELSE IF RawChildAlias(b, path, slug) # None THEN RawChildAlias(b, path, slug)[1].alias
  ELSE slug

\* C11: under the contents key a page shows one link for each child, labeled
\* with the alias the linker derived for the child's slug if there is one,
\* else with the alias of the raw content-list literal whose target basename
\* matches, else with the slug
C11_ChildLabels ==
  \A b \in Builds :
    Done(b) =>
      \A i \in DOMAIN Pages(b) :
        Pages(b)[i].children # <<>> /\ ItemOf(Pages(b)[i], "contents") # None =>
          /\ Len(LinksUnder(Pages(b)[i], "contents")) = Len(Pages(b)[i].children)
          /\ \A j \in DOMAIN Pages(b)[i].children :
               LinksUnder(Pages(b)[i], "contents")[j].label
                 = html_escape_text(ExpectedChildLabel(b, Pages(b)[i].source_path,
                                                       Pages(b)[i].children[j]))

\* a page shows one child under the alias the linker derived and another
\* under the alias of a raw literal that points to no document, and a page
\* shows a child that is listed twice under the alias of the later entry
C11_Witness ==
  \E b \in Builds :
    /\ Done(b)
    /\ \E i \in DOMAIN Pages(b) : \E j \in DOMAIN Pages(b)[i].children :
         /\ LinkerChildAlias(b, Pages(b)[i].source_path, Pages(b)[i].children[j]) # None
         /\ LinksUnder(Pages(b)[i], "contents")[j].label # Pages(b)[i].children[j]
         /\ \E k \in DOMAIN Pages(b)[i].children :
              /\ LinkerChildAlias(b, Pages(b)[i].source_path, Pages(b)[i].children[k]) = None
              /\ RawChildAlias(b, Pages(b)[i].source_path, Pages(b)[i].children[k]) # None
              /\ LinksUnder(Pages(b)[i], "contents")[k].label = <<"X">>
    /\ \E i \in DOMAIN Pages(b) : \E j \in DOMAIN LinksUnder(Pages(b)[i], "contents") :
         LinksUnder(Pages(b)[i], "contents")[j].label = <<"C">>

\* the pages of a build with a slug; a child that is the root index is a
\* child whose slug is the slug of a root index page
IsRootSlug(b, slug) ==
  \E i \in DOMAIN Pages(b) : Pages(b)[i].id = slug /\ Pages(b)[i].is_root_index

\* C12: the href of every child link is the entry of the table for the
\* layout, for whether the page is the root index and for whether the child
\* is, and on a non-root page of the nested layout it has no pages/ prefix
C12_ChildHrefs ==
  \A b \in Builds :
    Done(b) =>
      \A i \in DOMAIN Pages(b) : \A j \in DOMAIN LinksUnder(Pages(b)[i], "contents") :
        /\ LinksUnder(Pages(b)[i], "contents")[j].href
             = TableHref(Layout(b), Pages(b)[i].is_root_index,
                         IsRootSlug(b, Pages(b)[i].children[j]), Pages(b)[i].children[j])
        /\ Layout(b) = "nested" /\ ~Pages(b)[i].is_root_index =>
             ~starts_with(LinksUnder(Pages(b)[i], "contents")[j].href, PagesDir)

\* the file a part-of literal of the document at path points to
PartOfTarget(b, path, raw) == resolve_contents_link(raw, fs_parent(path), req[b].fs)[1]

\* the aliased part-of entries of a page that point to a document: a page
\* of the build, or a file that was not loaded
AliasedPartOf(b, page) ==
  {i \in DOMAIN ListedUnder(b, page.source_path, "part_of") :
     /\ Aliased(ListedUnder(b, page.source_path, "part_of")[i])
     /\ PartOfTarget(b, page.source_path, ListedUnder(b, page.source_path, "part_of")[i])
          \in DOMAIN req[b].fs}

IsRootPath(b, path) ==
  \E i \in DOMAIN Pages(b) : Pages(b)[i].source_path = path /\ Pages(b)[i].is_root_index

ShownLinks(page, k) == {LinksUnder(page, k)[j] : j \in DOMAIN LinksUnder(page, k)}

\* C13: in the nested layout the fragment of a non-root page shows, for each
\* aliased part-of entry, a link labeled with the alias, to ../index.html
\* when the target is the root index and to ../pages/{slug}.html when it is
\* another document
C13_NestedPartOfLinks ==
  \A b \in Builds :
    Done(b) /\ Layout(b) = "nested" =>
      \A i \in DOMAIN Pages(b) :
        ~Pages(b)[i].is_root_index =>
          \A e \in AliasedPartOf(b, Pages(b)[i]) :
            LET raw == ListedUnder(b, Pages(b)[i].source_path, "part_of")[e]
                target == PartOfTarget(b, Pages(b)[i].source_path, raw)
            IN Anchor(IF IsRootPath(b, target) THEN Up \o IndexHtml
                      ELSE Up \o PagesDir \o slug_of_path(target) \o DotHtml,
                      html_escape_text(raw.alias))
                 \in ShownLinks(Pages(b)[i], "part_of")

ShowsPartOf(page) == ItemOf(page, "part_of") # None /\ page.parents # <<>>

\* C14: the links under the part_of key have the hrefs of the table: the
\* link of a page to each of its structural parents, and the link for each
\* aliased part-of entry that points to a page of the build
C14_PartOfFollowsTable ==
  \A b \in Builds :
    Done(b) =>
      \A i \in DOMAIN Pages(b) :
        /\ ShowsPartOf(Pages(b)[i]) =>
             \A j \in DOMAIN Pages(b)[i].parents :
               LinksUnder(Pages(b)[i], "part_of")[j].href
                 = TableHref(Layout(b), Pages(b)[i].is_root_index,
                             IsRootSlug(b, Pages(b)[i].parents[j]), Pages(b)[i].parents[j])
        /\ \A e \in AliasedPartOf(b, Pages(b)[i]) :
             LET raw == ListedUnder(b, Pages(b)[i].source_path, "part_of")[e]
                 target == PartOfTarget(b, Pages(b)[i].source_path, raw)
             IN target \in {Pages(b)[k].source_path : k \in DOMAIN Pages(b)} =>
                  TableHref(Layout(b), Pages(b)[i].is_root_index, IsRootPath(b, target),
                            slug_of_path(target))
                    \in {l.href : l \in ShownLinks(Pages(b)[i], "part_of")}

\* the aliased part-of entries of a page, whatever they point to
AliasedEntries(b, page) ==
  {i \in DOMAIN ListedUnder(b, page.source_path, "part_of") :
     Aliased(ListedUnder(b, page.source_path, "part_of")[i])}

\* the slugs a page's part-of links stand for: its structural parents and
\* the targets of its aliased part-of entries
PartOfSlugs(b, page) ==
  SeqToSet(page.parents)
  \cup {slug_of_path(PartOfTarget(b, page.source_path,
                                  ListedUnder(b, page.source_path, "part_of")[e])) :
          e \in AliasedEntries(b, page)}

\* C15: under the part_of key a page shows a link for every aliased part-of
\* entry, labeled with its alias, whether or not the target is a structural
\* parent, and one link only for each target
C15_PartOfLinksOnce ==
  \A b \in Builds :
    Done(b) =>
      \A i \in DOMAIN Pages(b) :
        ItemOf(Pages(b)[i], "part_of") # None =>
          /\ \A e \in AliasedEntries(b, Pages(b)[i]) :
               html_escape_text(ListedUnder(b, Pages(b)[i].source_path, "part_of")[e].alias)
                 \in {l.label : l \in ShownLinks(Pages(b)[i], "part_of")}
          /\ Len(LinksUnder(Pages(b)[i], "part_of")) = Cardinality(PartOfSlugs(b, Pages(b)[i]))

\* ----------------------------------------------------------- the alias maps

\* link_graph has returned
Linked(b) == run[b].pc = "filter"

\* the document file an entry of the document d points to, None when it
\* points to no Markdown file
EntryDocument(b, d, raw) ==
  LET r == resolve_contents_link(raw, fs_parent(d.abs_path), req[b].fs)
  IN IF r # None /\ fs_exists(req[b].fs, r[1]) /\ fs_is_file(req[b].fs, r[1])
        /\ fs_extension_lowercase(r[1]) = Some(<<"m", "d">>)
       THEN r ELSE None

\* the aliases of the entries of a list that point to a document among
\* targets are in a map under the slugs of the documents
Recorded(b, d, list, map, targets) ==
  \A k \in DOMAIN list :
    Aliased(list[k]) /\ EntryDocument(b, d, list[k]) # None
                    /\ EntryDocument(b, d, list[k])[1] \in targets =>
      /\ slug_of_path(EntryDocument(b, d, list[k])[1]) \in DOMAIN map
      /\ \E l \in DOMAIN list :
           /\ Aliased(list[l]) /\ EntryDocument(b, d, list[l]) # None
           /\ slug_of_path(EntryDocument(b, d, list[l])[1])
                = slug_of_path(EntryDocument(b, d, list[k])[1])
           /\ map[slug_of_path(EntryDocument(b, d, list[k])[1])] = list[l].alias

\* C16 as stated: after link_graph every aliased content-list entry and
\* every aliased part-of entry of a document has its alias in the document's
\* childAliases or parentAliases under the slug of the document it points
\* to, with or without a structural edge to it
C16_AliasesRecorded ==
  \A b \in Builds :
    Linked(b) =>
      \A i \in DOMAIN run[b].docs :
        /\ Recorded(b, run[b].docs[i], run[b].docs[i].contents_raw,
                    run[b].docs[i].child_aliases, DOMAIN req[b].fs)
        /\ Recorded(b, run[b].docs[i], run[b].docs[i].raw_part_of,
                    run[b].docs[i].parent_aliases, DOMAIN req[b].fs)

\* C16, amended: the alias is recorded when the entry points to a loaded
\* document, with or without a structural edge to it
C16_LoadedAliasesRecorded ==
  \A b \in Builds :
    Linked(b) =>
      \A i \in DOMAIN run[b].docs :
        /\ Recorded(b, run[b].docs[i], run[b].docs[i].contents_raw,
                    run[b].docs[i].child_aliases, Loaded(b))
        /\ Recorded(b, run[b].docs[i], run[b].docs[i].raw_part_of,
                    run[b].docs[i].parent_aliases, Loaded(b))
        /\ \A k \in DOMAIN run[b].docs[i].raw_part_of :
             LET e == EntryDocument(b, run[b].docs[i], run[b].docs[i].raw_part_of[k])
             IN e # None /\ e[1] \notin Loaded(b) =>
                  slug_of_path(e[1]) \notin DOMAIN run[b].docs[i].parent_aliases

\* a document has an aliased part-of entry that points to a loaded document
\* that is not its structural parent, and one that points to a document
\* that was not loaded
C16_Witness ==
  \E b \in Builds :
    /\ Linked(b)
    /\ \E i \in DOMAIN run[b].docs : \E k, l \in DOMAIN run[b].docs[i].raw_part_of :
         LET d == run[b].docs[i]
             e == EntryDocument(b, d, d.raw_part_of[k])
             u == EntryDocument(b, d, d.raw_part_of[l])
         IN /\ Aliased(d.raw_part_of[k]) /\ e # None /\ e[1] \in Loaded(b)
            /\ slug_of_path(e[1]) \notin SeqToSet(d.parents)
            /\ d.parent_aliases[slug_of_path(e[1])] = d.raw_part_of[k].alias
            /\ Aliased(d.raw_part_of[l]) /\ u # None /\ u[1] \notin Loaded(b)

\* ------------------------------------------------------ the visibility filter

\* the visibility a file's header gives contains the label public
HasPublic(b, path) ==
  \E k \in DOMAIN ListedUnder(b, path, "visibility") :
    trim(ListedUnder(b, path, "visibility")[k]) = PublicLabel

Kept(b, path) == req[b].opts.include_nonpublic \/ path = req[b].entry \/ HasPublic(b, path)

\* the loaded paths that the filter keeps, in the order of loading
RECURSIVE KeptOf(_, _)
KeptOf(b, order) ==
  IF order = <<>> THEN <<>>
  ELSE (IF Kept(b, order[1]) THEN <<order[1]>> ELSE <<>>) \o KeptOf(b, Tail(order))

\* C18: the pages of the artifacts are the loaded documents that are public
\* and the entry, whatever its visibility, when include_nonpublic is false,
\* and all the loaded documents when it is true
C18_VisibilityFilter ==
  \A b \in Builds :
    Done(b) =>
      [i \in DOMAIN Pages(b) |-> Pages(b)[i].source_path] = KeptOf(b, run[b].order)

\* without include_nonpublic, the entry is not public and is a page, and a
\* document that is not public was loaded and is not a page, while one whose
\* visibility names public among other labels is
C18_Witness ==
  \E b \in Builds :
    /\ Done(b) /\ ~req[b].opts.include_nonpublic
    /\ ~HasPublic(b, req[b].entry) /\ Pages(b)[1].source_path = req[b].entry
    /\ Len(run[b].order) = Len(Pages(b)) + 1
    /\ \E i \in DOMAIN Pages(b) :
         Len(ListedUnder(b, Pages(b)[i].source_path, "visibility")) > 1

\* ---------------------------------------------------- the required fields

\* the line of a file's header for a key, None without the key
HeaderLine(b, path, k) ==
  IF \E i \in DOMAIN HeaderOf(b, path) : HeaderOf(b, path)[i].k = k
    THEN Some(HeaderOf(b, path)[CHOOSE i \in DOMAIN HeaderOf(b, path) :
                                  HeaderOf(b, path)[i].k = k])
    ELSE None

\* a required field is missing from a header when its key is absent or its
\* value is null, and reachable also when it is blank or an empty sequence
FieldMissing(b, path, f) ==
  \/ HeaderLine(b, path, f) = None
  \/ HeaderLine(b, path, f)[1].ty = "null"
  \/ /\ f = "reachable"
     /\ \/ HeaderLine(b, path, f)[1].ty = "plain" /\ trim(HeaderLine(b, path, f)[1].v) = <<>>
        \/ HeaderLine(b, path, f)[1].ty = "seq" /\ HeaderLine(b, path, f)[1].v = <<>>

WarningsFor(page, f) ==
  {k \in DOMAIN page.warnings : page.warnings[k] = Warn(f, page.source_path)}

\* C19: a page has exactly one warning for each required field that is
\* missing from the header of its file, naming the field and the path, and
\* none for a field that is present; no build fails for a missing field
C19_RequiredWarnings ==
  \A b \in Builds :
    /\ run[b].pc # "failed"
    /\ Done(b) =>
         \A i \in DOMAIN Pages(b) : \A f \in SeqToSet(RequiredFields) :
           Cardinality(WarningsFor(Pages(b)[i], f))
             = IF FieldMissing(b, Pages(b)[i].source_path, f) THEN 1 ELSE 0

\* ------------------------------------------------------------ the file names

\* C20: in a multi-page result the root index page is named index.html and
\* every other page {id}.html; a result that is not multi-page has exactly
\* one page, named index.html
C20_FileNames ==
  \A b \in Builds :
    Done(b) =>
      IF run[b].out.multi_page
        THEN \A i \in DOMAIN Pages(b) :
               Pages(b)[i].file_name
                 = IF Pages(b)[i].is_root_index THEN IndexHtml ELSE Pages(b)[i].id \o DotHtml
        ELSE Len(Pages(b)) = 1 /\ Pages(b)[1].file_name = IndexHtml

\* a multi-page result with the root index and another page, after a
\* traversal that loaded a document with a content list of its own
C20_Witness ==
  \E b \in Builds :
    /\ Done(b) /\ run[b].out.multi_page
    /\ \E i, j \in DOMAIN Pages(b) :
         /\ Pages(b)[i].is_root_index /\ Pages(b)[i].file_name = IndexHtml
         /\ ~Pages(b)[j].is_root_index /\ Pages(b)[j].is_index
         /\ Pages(b)[j].file_name = Pages(b)[j].id \o DotHtml

\* ------------------------------------------------------ unresolved page links

\* the hrefs of a page, as rendered, that target a .md page and name the
\* file of no page of the result
UnresolvedLinks(b, page) ==
  {k \in DOMAIN RenderedOf(b, page.source_path) :
     LET e == RenderedOf(b, page.source_path)[k]
     IN /\ e.kind = "href" /\ TargetsMdPage(e.val)
        /\ \A j \in DOMAIN Pages(b) :
             fs_file_name(Pages(b)[j].source_path) # LinkedName(e.val)}

\* a warning names a link when its path is the link as written, the file
\* name it names, or the link joined to the directory of the page
NamesLink(w, page, url) ==
  w.p \in {url, PagePart(url), LinkedName(url),
           fs_join(fs_parent(page.source_path), PagePart(url))}

\* C21: in the result of a build that rewrites links, every href to a .md
\* page that names no loaded document has a warning among the build's warnings
C21_UnresolvedLinkWarned ==
  \A b \in Builds :
    (Done(b) /\ req[b].opts.rewrite_links) =>
      \A i \in DOMAIN Pages(b) :
        \A k \in UnresolvedLinks(b, Pages(b)[i]) :
          \E n \in DOMAIN run[b].out.warnings :
            NamesLink(run[b].out.warnings[n], Pages(b)[i],
                      RenderedOf(b, Pages(b)[i].source_path)[k].val)

\* ------------------------------------------------- the frame of the rewriter

\* the query or fragment of a URL: what follows its page part
Suffix(url) == SubSeq(url, Len(PagePart(url)) + 1, Len(url))

\* the rewriting pass of build b is the step being taken
RewritePass(b) == run[b].pc = "rewrite" /\ run'[b].pc = "attach"

\* the documents whose file name an href names
NamedBy(docs, url) ==
  {j \in DOMAIN docs : fs_file_name(docs[j].abs_path) = LinkedName(url)}

\* one element of the html before and after the pass
ElementFrame(docs, old, new) ==
  \/ new = old
  \/ /\ old.kind = "href" /\ TargetsMdPage(old.val) /\ NamedBy(docs, old.val) # {}
     /\ new = [old EXCEPT !.val = new.val]
     /\ Suffix(new.val) = Suffix(old.val)

\* C22: the rewriting pass changes only href values that target a .md page
\* and name the file of a loaded document, keeps the query or fragment of
\* such a value, and leaves every other element of the html, every other
\* field of every document and the rest of the build's state as they were
C22_RewriteFrame ==
  [][\A b \in Builds :
       RewritePass(b) =>
         /\ [run'[b] EXCEPT !.docs = run[b].docs, !.pc = run[b].pc] = run[b]
         /\ DOMAIN run'[b].docs = DOMAIN run[b].docs
         /\ \A i \in DOMAIN run[b].docs :
              /\ [run'[b].docs[i] EXCEPT !.html = run[b].docs[i].html] = run[b].docs[i]
              /\ DOMAIN run'[b].docs[i].html = DOMAIN run[b].docs[i].html
              /\ \A k \in DOMAIN run[b].docs[i].html :
                   /\ ElementFrame(run[b].docs, run[b].docs[i].html[k],
                                   run'[b].docs[i].html[k])
                   /\ (~req[b].opts.rewrite_links \/ NamedBy(run[b].docs,
                                                           run[b].docs[i].html[k].val) = {})
                        => run'[b].docs[i].html[k] = run[b].docs[i].html[k]]_vars

\* after a pass, one document holds a rewritten href that kept its fragment,
\* an href to a page no document is named after, as written, and its text
C22_Witness ==
  \E b \in Builds :
    /\ Rewritten(b)
    /\ \E i \in DOMAIN run[b].docs :
         LET d == run[b].docs[i]
             o == OriginalHtml(b, d)
         IN /\ \E k \in DOMAIN o :
                 /\ d.html[k].val # o[k].val
                 /\ Suffix(o[k].val) # <<>> /\ Suffix(d.html[k].val) = Suffix(o[k].val)
            /\ \E k \in DOMAIN o :
                 /\ o[k].kind = "href" /\ TargetsMdPage(o[k].val)
                 /\ NamedBy(run[b].docs, o[k].val) = {} /\ d.html[k] = o[k]
            /\ \E k \in DOMAIN o : o[k].kind # "href" /\ d.html[k] = o[k]

\* ------------------------------------------------------------------ the slug

\* a character of [a-z0-9]
SlugLetter(c) == c \in SeqToSet(Lower) \cup SeqToSet(Digit)

\* the slug the specification gives a stem: of the lowercased stem, the
\* characters of [a-z0-9], and one hyphen where a run of other characters
\* begins that has a character of [a-z0-9] before it and one after it
SlugOfStem(stem) ==
  LET low == to_ascii_lowercase(stem)
      inner(i) == /\ \E j \in 1..(i - 1) : SlugLetter(low[j])
                  /\ \E j \in (i + 1)..Len(low) : SlugLetter(low[j])
      marks == [i \in DOMAIN low |->
                  IF SlugLetter(low[i]) THEN low[i] ELSE "-"]
      keep == [i \in DOMAIN low |->
                 \/ SlugLetter(low[i])
                 \/ (inner(i) /\ SlugLetter(low[i - 1]))]
  IN SelectIdx(marks, keep)

WellFormedSlug(id) ==
  /\ \A i \in DOMAIN id : SlugLetter(id[i]) \/ id[i] = "-"
  /\ id # <<>> => (id[1] # "-" /\ id[Len(id)] # "-")
  /\ \A i \in 1..(Len(id) - 1) : ~(id[i] = "-" /\ id[i + 1] = "-")

\* C23: the id of every page is the slug of the stem of its file name: the
\* stem lowercased, each run outside [a-z0-9] one hyphen, no hyphen at either
\* end; it has only [a-z0-9-], no leading, trailing or doubled hyphen, and
\* slugify returns it unchanged
C23_SlugOfStem ==
  \A b \in Builds :
    Done(b) =>
      \A i \in DOMAIN Pages(b) :
        LET id == Pages(b)[i].id
        IN /\ id = SlugOfStem(Stem(fs_file_name(Pages(b)[i].source_path)))
           /\ WellFormedSlug(id)
           /\ slugify(id) = id

\* a page with a title whose slug is not its id, from a stem with an
\* upper-case letter and a run of two characters outside [a-z0-9] inside it
C23_Witness ==
  \E b \in Builds :
    /\ Done(b)
    /\ \E i \in DOMAIN Pages(b) :
         LET stem == Stem(fs_file_name(Pages(b)[i].source_path))
         IN /\ Pages(b)[i].title = TitleText
            /\ slugify(Pages(b)[i].title) # Pages(b)[i].id
            /\ Pages(b)[i].id = <<"a", "-", "b">>
            /\ stem = <<"A", " ", "-", "b">>

\* --------------------------------------------------------------- strict mode

\* C24: a run_build call whose loader and emitter did not fail (it emitted
\* its documents and came to the strict test) fails exactly when strict is
\* set and the call itself has recorded a warning, whatever the other calls
\* of the process have recorded
C24_StrictPerBuild ==
  \A b \in Builds :
    (run[b].pc = "returned" /\ run[b].docs # <<>>) =>
      (run[b].result = "err" <=> (req[b].opts.strict /\ run[b].recorded > 0))

\* ------------------------------------------- rewritten links and attachments

\* the attachment pass of build b is the step being taken
AttachPass(b) == run[b].pc = "attach" /\ run'[b].pc = "emit"

\* C25: the attachment pass leaves every href that the rewriter has set to a
\* generated page as it is, adds no warning for it and plans no copy of it
C25_RewrittenLinksSkipped ==
  [][\A b \in Builds :
       (AttachPass(b) /\ req[b].opts.rewrite_links) =>
         \A i \in DOMAIN run[b].docs :
           \A k \in DOMAIN run[b].docs[i].html :
             LET d == run[b].docs[i]
                 o == OriginalHtml(b, d)[k]
                 e == d.html[k]
                 src == attachment_source(d, e.val)
             IN (o.kind = "href" /\ e.val # o.val) =>
                  /\ run'[b].docs[i].html[k] = e
                  /\ \A n \in DOMAIN run'[b].docs[i].warnings :
                       run'[b].docs[i].warnings[n].p # src
                  /\ \A n \in DOMAIN run'[b].plan : run'[b].plan[n].source # src]_vars

\* ------------------------------------------------- the slugs of the relations

\* the ids of the pages of a result
PageIds(b) == {Pages(b)[i].id : i \in DOMAIN Pages(b)}

\* C26: in every result, each slug in the children and in the parents of a
\* page is the id of a page of the result
C26_RelationsAmongPages ==
  \A b \in Builds :
    Done(b) =>
      \A i \in DOMAIN Pages(b) :
        /\ SeqToSet(Pages(b)[i].children) \subseteq PageIds(b)
        /\ SeqToSet(Pages(b)[i].parents) \subseteq PageIds(b)

\* ------------------------------------------------------ distinct file names

\* C27: in every result the file names of the pages are pairwise distinct
C27_DistinctFileNames ==
  \A b \in Builds :
    Done(b) =>
      \A i, j \in DOMAIN Pages(b) :
        i # j => Pages(b)[i].file_name # Pages(b)[j].file_name

\* ----------------------------------------------- an entry that is not a root

\* the header of the entry file, as written, declares it the root index
EntryDeclaredRoot(b) ==
  \E l \in DOMAIN HeaderOf(b, req[b].entry) :
    /\ HeaderOf(b, req[b].entry)[l].t = "yaml"
    /\ HeaderOf(b, req[b].entry)[l].k = "this_file_is_root_index"
    /\ HeaderOf(b, req[b].entry)[l].v = TRUE

\* C28: in a build whose entry does not declare itself the root index, no
\* document but the entry is ever loaded, and no other path is ever queued
C28_NonRootEntryAlone ==
  \A b \in Builds :
    (run[b].pc \notin {"off", "idle"} /\ ~EntryDeclaredRoot(b)) =>
      /\ Loaded(b) \subseteq {req[b].entry}
      /\ DOMAIN run[b].visited \subseteq {req[b].entry}
      /\ Len(run[b].order) <= 1
      /\ SeqToSet(run[b].queue) \subseteq {req[b].entry}

\* a build is done whose entry is not a root index and lists two documents
\* that exist, one of them a root index itself; its only page is the entry
C28_Witness ==
  \E b \in Builds :
    /\ Done(b) /\ ~EntryDeclaredRoot(b)
    /\ Len(Pages(b)) = 1 /\ Pages(b)[1].source_path = req[b].entry
    /\ Len(Pages(b)[1].frontmatter) > 0
    /\ ListedUnder(b, req[b].entry, "contents") = <<L(P_index), L(P_a)>>
    /\ \E l \in DOMAIN HeaderOf(b, P_index) :
         /\ HeaderOf(b, P_index)[l].t = "yaml"
         /\ HeaderOf(b, P_index)[l].k = "this_file_is_root_index"

\* ------------------------------------------------ the order of part-of links

\* a sequence without the repetitions of its earlier elements
Distinct(seq) ==
  SelectIdx(seq, [i \in DOMAIN seq |-> \A j \in 1..(i - 1) : seq[j] # seq[i]])

\* the file names the aliased part-of entries of a file name, in the order
\* in which the header declares them
DeclaredKeys(b, path) ==
  LET aliased == SelectSeq(ListedUnder(b, path, "part_of"), Aliased)
  IN Distinct([i \in DOMAIN aliased |-> normalize_target_basename_raw(aliased[i].target)])

\* C29: the metadata fragment of every page is the one with the part-of
\* links in a fixed order: the structural parents in the order of the
\* parents list, then the other aliased targets in the order of declaration
C29_PartOfOrderFixed ==
  \A b \in Builds :
    Done(b) =>
      \A i \in DOMAIN Pages(b) :
        Pages(b)[i].metadata_html
          = build_metadata_html(run[b].docs[i], run[b].out.multi_page, req[b].opts.flat,
                                run[b].out.root_slug,
                                DeclaredKeys(b, Pages(b)[i].source_path))

\* ------------------------------------------------------- the header block

\* the line that closes the header block of a text that opens one: the
\* first marker line after the first line, 0 when there is none
ClosingLine(raw) ==
  IF \E j \in 2..Len(raw) : raw[j] = Marker
    THEN CHOOSE j \in 2..Len(raw) :
           raw[j] = Marker /\ \A i \in 2..(j - 1) : raw[i] # Marker
    ELSE 0

\* what the specification says of the split of a text
SplitAsSpecified(raw, r) ==
  IF raw = <<>> \/ raw[1] # Marker
    THEN ~r.err /\ ~r.has_yaml /\ r.body_md = raw
  ELSE IF ClosingLine(raw) = 0
    THEN r.err
  ELSE /\ ~r.err /\ r.has_yaml
       /\ r.frontmatter_yaml = [i \in 1..(ClosingLine(raw) - 2) |-> raw[i + 1]]
       /\ r.body_md = [i \in 1..(Len(raw) - ClosingLine(raw)) |-> raw[ClosingLine(raw) + i]]

\* C30: split_frontmatter gives a text whose first line is not the marker no
\* header and the whole text as body; otherwise the lines up to the first
\* later marker as header and all lines after it as body; and an error when
\* no later marker exists.  A build fails on its entry in the last case, and
\* otherwise renders exactly the body
C30_SplitFrontmatter ==
  \A b \in Builds :
    run[b].pc \notin {"off", "idle"} =>
      \A p \in DOMAIN req[b].fs :
        /\ SplitAsSpecified(TextOf(b, p), split_frontmatter(TextOf(b, p)))
        /\ (p \in run[b].read /\ OpensUnclosed(TextOf(b, p))) =>
             run[b].pc = "failed" /\ run[b].err = "unterminated"
        /\ p \in DOMAIN run[b].visited =>
             /\ ~OpensUnclosed(TextOf(b, p))
             /\ Len(run[b].visited[p].html)
                  = IF TextOf(b, p) # <<>> /\ TextOf(b, p)[1] = Marker
                      THEN Len(TextOf(b, p)) - ClosingLine(TextOf(b, p))
                      ELSE Len(TextOf(b, p))

\* a page of a text with a header of one line and a body that is a marker line
C30_Witness ==
  \E b \in Builds :
    /\ Done(b)
    /\ TextOf(b, req[b].entry) = <<Marker, YamlLine("title", <<"t">>), Marker, Marker>>
    /\ Len(Pages(b)[1].html) = 1
    /\ Pages(b)[1].frontmatter = <<YamlLine("title", <<"t">>)>>

====
